---- MODULE Spec2Model ----
(***************************************************************************)
(* A model of murmur's graph execution engine: graph.py (dependency graph, *)
(* cycle detection, validate_graph), executor.py (topological_sort,        *)
(* GraphExecutor) and registry.py.                                          *)
(*                                                                         *)
(* Python strings that the engine parses (input sources such as            *)
(* "$config.start" or "$a.result") are sequences of tokens: "$", "." and   *)
(* identifiers. Names (node names, keys, transformer names) are strings.   *)
(* A dict is a record [keys, map]: its keys in insertion order and its     *)
(* mapping. A Python set is a set; wherever the code iterates over a set,  *)
(* the model takes every iteration order.                                  *)
(***************************************************************************)
EXTENDS Integers, Sequences, FiniteSets, TLC

VARIABLES
    graph,            \* the graph definition: the sequence graph["nodes"]
    vresult,          \* outcome of validate_graph(graph, registry), or NotRun
    deps,             \* argument of topological_sort
    sorted,           \* result of topological_sort(deps), or NotRun
    pc,               \* position of the caller of the engine
    artifact_dir,     \* GraphExecutor.artifact_dir (None or a directory)
    cached_nodes,     \* GraphExecutor.cached_nodes
    run_id,           \* GraphExecutor.run_id
    files,            \* the artifact directory: file name -> stored JSON bag
    execution_order,  \* execute: execution_order
    idx,              \* execute: position of the for loop in execution_order
    node_outputs,     \* execute: node_outputs
    all_artifacts,    \* execute: all_artifacts
    config,           \* execute: the configuration mapping passed in
    result,           \* what execute returned or raised, or NotRun
    log,              \* history: the loads, invocations and saves of this run
    runs,             \* history: the outcome of every finished execute call
    runs_left,        \* how many more executors the caller constructs
    _transformers,    \* TransformerRegistry._transformers
    reg_calls,        \* history: the classes passed to register, in call order
    reg_out,          \* what the last call on the registry returned or raised
    hash_seed,        \* the process's string hash seed: fixes set iteration order
    stories,          \* StoryHistory.stories
    max_age_days,     \* StoryHistory.max_age_days
    disk,             \* the history file: its JSON document, or NoFile
    hist_out          \* what the last call on the history returned

vars == <<graph, vresult, deps, sorted, pc, artifact_dir, cached_nodes, run_id,
          files, execution_order, idx, node_outputs, all_artifacts, config,
          result, log, runs, runs_left, _transformers, reg_calls, reg_out,
          hash_seed, stories, max_age_days, disk, hist_out>>

\* the registry object, the hash seed and the story history
libVars == <<_transformers, reg_calls, reg_out, hash_seed, stories,
             max_age_days, disk, hist_out>>

-----------------------------------------------------------------------------
(* Values: the JSON-like values and objects that flow through the engine.  *)

None == [t |-> "none", i |-> 0, s |-> <<>>]
IntV(n) == [t |-> "int", i |-> n, s |-> <<>>]
StrV(toks) == [t |-> "str", i |-> 0, s |-> toks]
\* a Python object that json cannot encode; s is what str(obj) gives
ObjV(repr) == [t |-> "obj", i |-> 0, s |-> <<repr>>]

NotRun == [kind |-> "not_run"]

\* a dict as [keys, map]
EmptyDict == [keys |-> <<>>, map |-> <<>>]

SeqToSet(q) == {q[i] : i \in 1..Len(q)}

\* d[k] = v of a Python dict: a new key goes last, an old key keeps its place
DictSet(d, k, v) ==
    IF k \in SeqToSet(d.keys)
    THEN [keys |-> d.keys,
          map |-> [x \in DOMAIN d.map |-> IF x = k THEN v ELSE d.map[x]]]
    ELSE [keys |-> Append(d.keys, k),
          map |-> [x \in SeqToSet(d.keys) \cup {k} |->
                      IF x = k THEN v ELSE d.map[x]]]

\* d.get(k, default)
DictGet(d, k, default) == IF k \in SeqToSet(d.keys) THEN d.map[k] ELSE default

-----------------------------------------------------------------------------
(* String parsing shared by graph.py and executor.py.                      *)

IsStr(source) == source.t = "str"

\* source.startswith("$")
StartsWithDollar(source) == Len(source.s) >= 1 /\ source.s[1] = "$"

\* source.startswith("$config.")
StartsWithConfig(source) ==
    /\ Len(source.s) >= 3
    /\ source.s[1] = "$" /\ source.s[2] = "config" /\ source.s[3] = "."

RECURSIVE Join(_)
\* the Python string a token sequence stands for
Join(toks) == IF toks = <<>> THEN "" ELSE Head(toks) \o Join(Tail(toks))

\* index of the first "." of toks, or 0
FirstDot(toks) ==
    IF \E i \in 1..Len(toks) : toks[i] = "."
    THEN CHOOSE i \in 1..Len(toks) :
            toks[i] = "." /\ \A j \in 1..(i - 1) : toks[j] # "."
    ELSE 0

\* s.split(".", 1) of the string toks stands for
SplitDot(toks) ==
    LET d == FirstDot(toks) IN
    IF d = 0 THEN <<Join(toks)>>
    ELSE <<Join(SubSeq(toks, 1, d - 1)), Join(SubSeq(toks, d + 1, Len(toks)))>>

\* source[1:]
DropFirst(toks) == SubSeq(toks, 2, Len(toks))

\* node.get("inputs", {}) as the sequence of its items
InputsOf(node) == node.inputs

-----------------------------------------------------------------------------
(* graph.py: _build_dependency_graph                                        *)

\* a faulty inner loop: a $config.x input adds the dependency "config"
NodeDepsWithConfig(node) ==
    {SplitDot(DropFirst(InputsOf(node)[j].v.s))[1] :
        j \in {j \in 1..Len(InputsOf(node)) :
                LET source == InputsOf(node)[j].v IN
                /\ IsStr(source)
                /\ StartsWithDollar(source)
                /\ Len(SplitDot(DropFirst(source.s))) = 2}}

\* the dependencies one node's inputs add (graph.py lines 20-24)
NodeDeps(node) ==
    {SplitDot(DropFirst(InputsOf(node)[j].v.s))[1] :
        j \in {j \in 1..Len(InputsOf(node)) :
                LET source == InputsOf(node)[j].v IN
                /\ IsStr(source)
                /\ StartsWithDollar(source)
                /\ ~StartsWithConfig(source)
                /\ Len(SplitDot(DropFirst(source.s))) = 2}}

RECURSIVE BuildDeps(_, _, _)
BuildDeps(g, i, d) ==
    IF i > Len(g) THEN d
    ELSE BuildDeps(g, i + 1, DictSet(d, g[i].name, NodeDeps(g[i])))

_build_dependency_graph(g) == BuildDeps(g, 1, EmptyDict)

-----------------------------------------------------------------------------
(* graph.py: _detect_cycle                                                  *)

WHITE == "white"
GRAY == "gray"
BLACK == "black"

\* a faulty path.index: the cycle is taken to start at the bottom of the stack
IndexOfBottom(path, x) == 1

\* path.index(x)
IndexOf(path, x) == CHOOSE i \in 1..Len(path) :
                        path[i] = x /\ \A j \in 1..(i - 1) : path[j] # x

RECURSIVE Dfs(_, _, _, _), DfsLoop(_, _, _, _, _)
\* dfs(node) started with the given color and path: the set of its possible
\* outcomes [res, color, path], one per iteration order of the neighbor sets;
\* res is the returned cycle, <<>> for None
Dfs(d, start, color0, path0) ==
    DfsLoop(d, start, DictGet(d, start, {}),
            [n \in DOMAIN color0 |-> IF n = start THEN GRAY ELSE color0[n]],
            Append(path0, start))

\* the for loop of dfs with the neighbors in todo still to come
DfsLoop(d, node, todo, color, path) ==
    IF todo = {}
    THEN {[res |-> <<>>,
           color |-> [n \in DOMAIN color |-> IF n = node THEN BLACK ELSE color[n]],
           path |-> SubSeq(path, 1, Len(path) - 1)]}
    ELSE UNION {
        LET rest == todo \ {neighbor} IN
        IF neighbor \notin DOMAIN color
        THEN DfsLoop(d, node, rest, color, path)
        ELSE IF color[neighbor] = GRAY
        THEN {[res |-> SubSeq(path, IndexOf(path, neighbor), Len(path))
                          \o <<neighbor>>,
               color |-> color, path |-> path]}
        ELSE IF color[neighbor] = WHITE
        THEN UNION {IF o.res # <<>> THEN {o}
                    ELSE DfsLoop(d, node, rest, o.color, o.path) :
                    o \in Dfs(d, neighbor, color, path)}
        ELSE DfsLoop(d, node, rest, color, path)
        : neighbor \in todo}

RECURSIVE DetectFrom(_, _, _)
\* the loop "for node in deps" from the i-th key on
DetectFrom(d, i, color) ==
    IF i > Len(d.keys) THEN {<<>>}
    ELSE IF color[d.keys[i]] = WHITE
    THEN UNION {IF o.res # <<>> THEN {o.res}
                ELSE DetectFrom(d, i + 1, o.color) :
                o \in Dfs(d, d.keys[i], color, <<>>)}
    ELSE DetectFrom(d, i + 1, color)

\* the set of values _detect_cycle(deps) can return (<<>> for None)
_detect_cycle(d) == DetectFrom(d, 1, [n \in SeqToSet(d.keys) |-> WHITE])

-----------------------------------------------------------------------------
(* registry.py and the registered units                                     *)

\* TransformerRegistry._transformers after the units are registered:
\* name -> the unit's declared outputs
Registry ==
    [n \in {"add-one", "double", "echo", "slack-fetcher", "piper-synthesizer"} |->
        CASE n = "add-one" -> <<"result">>
          [] n = "double" -> <<"result">>
          [] n = "echo" -> <<"echoed">>
          [] n = "slack-fetcher" -> <<"slack">>
          [] n = "piper-synthesizer" -> <<"audio">>]

\* the inputs attribute of each registered unit
DeclaredInputs ==
    [n \in DOMAIN Registry |->
        CASE n = "add-one" -> {"value"}
          [] n = "double" -> {"value"}
          [] n = "echo" -> {"message"}
          [] n = "slack-fetcher" -> {"slack_config_path", "mcp_config_path"}
          [] n = "piper-synthesizer" -> {"script", "piper_model", "output_dir"}]

\* TransformerRegistry.get raises KeyError for these names
GetRaises(reg, name) == name \notin DOMAIN reg

-----------------------------------------------------------------------------
(* graph.py: validate_graph                                                 *)

Outcome(exc, kind, node, key, ref, path) ==
    [exc |-> exc, kind |-> kind, node |-> node, key |-> key, ref |-> ref,
     path |-> path]

Ok == Outcome("none", "ok", "", "", "", <<>>)
Invalid(kind, node, key, ref) ==
    Outcome("GraphValidationError", kind, node, key, ref, <<>>)

\* a faulty node table: a name maps to its first node
NodeTableFirst(g) ==
    LET firsts == {i \in 1..Len(g) : \A j \in 1..(i - 1) : g[j].name # g[i].name}
        nth(k) == CHOOSE i \in firsts : Cardinality({j \in firsts : j <= i}) = k
        first(n) == CHOOSE i \in firsts : g[i].name = n
    IN  [keys |-> [k \in 1..Cardinality(firsts) |-> g[nth(k)].name],
         map |-> [n \in {g[i].name : i \in 1..Len(g)} |-> g[first(n)]]]

\* {node["name"]: node for node in graph.get("nodes", [])}: a name keeps the
\* place of its first node and maps to its last node
NodeTable(g) ==
    LET firsts == {i \in 1..Len(g) : \A j \in 1..(i - 1) : g[j].name # g[i].name}
        nth(k) == CHOOSE i \in firsts : Cardinality({j \in firsts : j <= i}) = k
        last(n) == CHOOSE i \in 1..Len(g) :
                      g[i].name = n /\ \A j \in (i + 1)..Len(g) : g[j].name # n
    IN  [keys |-> [k \in 1..Cardinality(firsts) |-> g[nth(k)].name],
         map |-> [n \in {g[i].name : i \in 1..Len(g)} |-> g[last(n)]]]

\* a faulty check of one input: the output key is looked up among the
\* outputs of the referencing node's own unit
CheckInputOwnUnit(g, reg, node, item) ==
    LET source == item.v
        nodes == NodeTable(g)
        parts == SplitDot(DropFirst(source.s))
    IN  IF ~IsStr(source) THEN Ok
        ELSE IF ~StartsWithDollar(source) THEN Ok
        ELSE IF StartsWithConfig(source) THEN Ok
        ELSE IF Len(parts) # 2
        THEN Invalid("invalid_reference", node.name, "", Join(source.s))
        ELSE IF parts[1] \notin SeqToSet(nodes.keys)
        THEN Invalid("unknown_node", node.name, item.k, parts[1])
        ELSE IF parts[2] \notin SeqToSet(reg[node.transformer])
        THEN Invalid("unknown_output", node.name, item.k, parts[2])
        ELSE Ok

\* a faulty check of one input: a reference without a "." is skipped
CheckInputLenient(g, reg, node, item) ==
    LET source == item.v
        nodes == NodeTable(g)
        parts == SplitDot(DropFirst(source.s))
    IN  IF ~IsStr(source) THEN Ok
        ELSE IF ~StartsWithDollar(source) THEN Ok
        ELSE IF StartsWithConfig(source) THEN Ok
        ELSE IF Len(parts) # 2 THEN Ok
        ELSE IF parts[1] \notin SeqToSet(nodes.keys)
        THEN Invalid("unknown_node", node.name, item.k, parts[1])
        ELSE IF GetRaises(reg, nodes.map[parts[1]].transformer)
        THEN Outcome("KeyError", "unknown_transformer", "", "",
                     nodes.map[parts[1]].transformer, <<>>)
        ELSE IF parts[2] \notin SeqToSet(reg[nodes.map[parts[1]].transformer])
        THEN Invalid("unknown_output", node.name, item.k, parts[2])
        ELSE Ok

\* the check of one input (graph.py lines 90-119): Ok when the loop goes on
CheckInput(g, reg, node, item) ==
    LET source == item.v
        nodes == NodeTable(g)
        parts == SplitDot(DropFirst(source.s))
    IN  IF ~IsStr(source) THEN Ok
        ELSE IF ~StartsWithDollar(source) THEN Ok
        ELSE IF StartsWithConfig(source) THEN Ok
        ELSE IF Len(parts) # 2
        THEN Invalid("invalid_reference", node.name, "", Join(source.s))
        ELSE IF parts[1] \notin SeqToSet(nodes.keys)
        THEN Invalid("unknown_node", node.name, item.k, parts[1])
        ELSE IF GetRaises(reg, nodes.map[parts[1]].transformer)
        THEN Outcome("KeyError", "unknown_transformer", "", "",
                     nodes.map[parts[1]].transformer, <<>>)
        ELSE IF parts[2] \notin SeqToSet(reg[nodes.map[parts[1]].transformer])
        THEN Invalid("unknown_output", node.name, item.k, parts[2])
        ELSE Ok

RECURSIVE CheckInputs(_, _, _, _)
\* the loop over node["inputs"] from the j-th item on
CheckInputs(g, reg, node, j) ==
    IF j > Len(InputsOf(node)) THEN Ok
    ELSE LET r == CheckInput(g, reg, node, InputsOf(node)[j]) IN
         IF r # Ok THEN r ELSE CheckInputs(g, reg, node, j + 1)

RECURSIVE CheckNodes(_, _, _)
\* the loop over graph["nodes"] from the i-th node on (graph.py lines 76-119)
CheckNodes(g, reg, i) ==
    IF i > Len(g) THEN Ok
    ELSE IF GetRaises(reg, g[i].transformer)
    THEN Invalid("unknown_transformer", g[i].name, "", g[i].transformer)
    ELSE LET r == CheckInputs(g, reg, g[i], 1) IN
         IF r # Ok THEN r ELSE CheckNodes(g, reg, i + 1)

\* the set of outcomes of validate_graph(graph, registry): Ok for a normal
\* return, otherwise the exception raised
validate_graph(g, reg) ==
    LET r == CheckNodes(g, reg, 1) IN
    IF r # Ok THEN {r}
    ELSE {IF cycle # <<>>
          THEN Outcome("GraphValidationError", "cycle", "", "", "", cycle)
          ELSE Ok : cycle \in _detect_cycle(_build_dependency_graph(g))}

-----------------------------------------------------------------------------
(* executor.py: topological_sort                                            *)

\* a faulty reverse_deps: no dependent is ever entered
ReverseDepsEmpty(d) == [n \in SeqToSet(d.keys) |-> {}]

\* reverse_deps (executor.py lines 17-21)
ReverseDeps(d) ==
    [n \in SeqToSet(d.keys) |-> {m \in SeqToSet(d.keys) : n \in d.map[m]}]

\* a faulty in_degree: whether a node has dependencies, not how many
InDegreeFlag(d) == [n \in SeqToSet(d.keys) |-> IF d.map[n] = {} THEN 0 ELSE 1]

\* a faulty in_degree: only the dependencies that are keys are counted
InDegreeKnown(d) ==
    [n \in SeqToSet(d.keys) |-> Cardinality(d.map[n] \cap SeqToSet(d.keys))]

\* in_degree (executor.py line 24)
InDegree(d) == [n \in SeqToSet(d.keys) |-> Cardinality(d.map[n])]

RECURSIVE VisitDependents(_, _, _)
\* the loop "for dependent in reverse_deps[node]" with todo still to come:
\* the set of [queue, in_degree] it can end with
VisitDependents(todo, queue, in_degree) ==
    IF todo = {} THEN {[queue |-> queue, in_degree |-> in_degree]}
    ELSE UNION {
        LET deg == [n \in DOMAIN in_degree |->
                      IF n = dependent THEN in_degree[n] - 1 ELSE in_degree[n]]
        IN
        VisitDependents(todo \ {dependent},
                        IF deg[dependent] = 0 THEN Append(queue, dependent)
                        ELSE queue,
                        deg)
        : dependent \in todo}

RECURSIVE Kahn(_, _, _, _)
\* the while loop of topological_sort: the set of results it can return
Kahn(d, queue, in_degree, res) ==
    IF queue = <<>> THEN {res}
    ELSE UNION {Kahn(d, o.queue, o.in_degree, Append(res, Head(queue))) :
                o \in VisitDependents(ReverseDeps(d)[Head(queue)],
                                      Tail(queue), in_degree)}

\* a faulty topological_sort: the nodes in the order of the definition
DefinitionOrder(d) == {d.keys}

\* the set of lists topological_sort(deps) can return
topological_sort(d) ==
    LET in_degree == InDegree(d)
        IsReady(n) == in_degree[n] = 0
    IN  Kahn(d, SelectSeq(d.keys, IsReady), in_degree, <<>>)

-----------------------------------------------------------------------------
(* The units of the registry: Transformer.process                           *)

\* what process returns or raises
Returned(data, artifacts) ==
    [raised |-> FALSE, exc |-> "", data |-> data, artifacts |-> artifacts]
Raised(exc) == [raised |-> TRUE, exc |-> exc, data |-> <<>>, artifacts |-> <<>>]

\* input.data.get(k, default)
BagGet(bag, k, default) == IF k \in DOMAIN bag THEN bag[k] ELSE default

\* the set of outcomes of registry.get(name).process(TransformerIO(data=inputs))
Process(name, inputs) ==
    CASE name = "add-one" ->
            \* value + 1 raises TypeError unless value is a number
            LET value == BagGet(inputs, "value", IntV(0)) IN
            IF value.t = "int"
            THEN {Returned([result |-> IntV(value.i + 1)], <<>>)}
            ELSE {Raised("TypeError")}
      [] name = "double" ->
            \* value * 2 doubles a number, repeats a string, else TypeError
            LET value == BagGet(inputs, "value", IntV(0)) IN
            IF value.t = "int"
            THEN {Returned([result |-> IntV(value.i * 2)], <<>>)}
            ELSE IF value.t = "str"
            THEN {Returned([result |-> StrV(value.s \o value.s)], <<>>)}
            ELSE {Raised("TypeError")}
      [] name = "echo" ->
            IF "message" \in DOMAIN inputs
            THEN {Returned([echoed |-> inputs["message"]], <<>>)}
            ELSE {Raised("KeyError")}
      [] name = "slack-fetcher" ->
            \* loads a config file and calls an external tool: either may fail;
            \* otherwise the output is a DataSource object
            {Returned([slack |-> ObjV("DataSource(name='slack')")], <<>>),
             Raised("RuntimeError")}
      [] name = "piper-synthesizer" ->
            \* Path(output_dir) raises TypeError unless output_dir is a string;
            \* the synthesis may fail; otherwise the audio file written under
            \* output_dir is the output and the file artifact "audio"
            LET output_dir == BagGet(inputs, "output_dir", StrV(<<"output">>)) IN
            IF output_dir.t # "str" THEN {Raised("TypeError")}
            ELSE LET audio_path == Join(output_dir.s) \o "/brief.wav" IN
                 {Returned([audio |-> StrV(<<audio_path>>)],
                           [audio |-> audio_path]),
                  Raised("RuntimeError")}

-----------------------------------------------------------------------------
(* executor.py: GraphExecutor                                               *)

NoDir == "<none>"

\* the configuration mapping passed to execute
Config == [start |-> IntV(5)]

\* json.dump(data, f, default=str) followed by json.load: an object json
\* cannot encode is stored as the string str(obj)
JsonValue(v) == IF v.t = "obj" THEN StrV(v.s) ELSE v
JsonRoundTrip(data) == [k \in DOMAIN data |-> JsonValue(data[k])]

\* f"{self.run_id}_{node_name}.json" in the artifact directory
ArtifactPath(rid, node_name) == rid \o "_" \o node_name \o ".json"

\* a faulty _save_artifact: without an artifact directory the file is written
\* all the same
SaveAlways(fs, dir, rid, node_name, data) ==
    LET path == ArtifactPath(rid, node_name) IN
    [f \in DOMAIN fs \cup {path} |->
        IF f = path THEN JsonRoundTrip(data) ELSE fs[f]]

\* a faulty _save_artifact: an artifact that exists is left as it is
SaveKeepExisting(fs, dir, rid, node_name, data) ==
    IF dir = NoDir THEN fs
    ELSE LET path == ArtifactPath(rid, node_name) IN
         [f \in DOMAIN fs \cup {path} |->
            IF f \in DOMAIN fs THEN fs[f] ELSE JsonRoundTrip(data)]

\* the files after _save_artifact(node_name, data)
_save_artifact(fs, dir, rid, node_name, data) ==
    IF dir = NoDir THEN fs
    ELSE LET path == ArtifactPath(rid, node_name) IN
         [f \in DOMAIN fs \cup {path} |->
            IF f = path THEN JsonRoundTrip(data) ELSE fs[f]]

\* a faulty _load_cached_artifact: a missing file loads as an empty bag
LoadOrEmpty(fs, dir, rid, node_name) ==
    IF dir = NoDir THEN <<>>
    ELSE IF ArtifactPath(rid, node_name) \notin DOMAIN fs THEN << <<>> >>
    ELSE <<fs[ArtifactPath(rid, node_name)]>>

\* a faulty _load_cached_artifact: the file is looked up under the node name
\* alone, whatever the run id
LoadAnyRun(fs, dir, rid, node_name) ==
    IF dir = NoDir THEN <<>>
    ELSE IF \A r \in {"r0", "r1"} : ArtifactPath(r, node_name) \notin DOMAIN fs
    THEN <<>>
    ELSE <<fs[ArtifactPath(CHOOSE r \in {"r0", "r1"} :
                            ArtifactPath(r, node_name) \in DOMAIN fs, node_name)]>>

\* _load_cached_artifact(node_name): the loaded bag in a sequence, or <<>>
\* for None
_load_cached_artifact(fs, dir, rid, node_name) ==
    IF dir = NoDir THEN <<>>
    ELSE IF ArtifactPath(rid, node_name) \notin DOMAIN fs THEN <<>>
    ELSE <<fs[ArtifactPath(rid, node_name)]>>

\* a faulty _resolve_reference: a node's outputs are consulted before the
\* configuration mapping
ResolveNodeFirst(source, conf, outputs) ==
    IF ~IsStr(source) \/ ~StartsWithDollar(source) THEN source
    ELSE LET ref == DropFirst(source.s)
             parts == SplitDot(ref)
         IN  IF Len(parts) = 2 /\ parts[1] \in DOMAIN outputs
             THEN BagGet(outputs[parts[1]], parts[2], None)
             ELSE IF Len(ref) >= 2 /\ ref[1] = "config" /\ ref[2] = "."
             THEN BagGet(conf, Join(SubSeq(ref, 3, Len(ref))), None)
             ELSE source

\* a faulty _resolve_reference: a $config reference to a key the mapping
\* lacks is handed on as the reference text
ResolveKeepsSource(source, conf, outputs) ==
    IF ~IsStr(source) \/ ~StartsWithDollar(source) THEN source
    ELSE LET ref == DropFirst(source.s) IN
         IF Len(ref) >= 2 /\ ref[1] = "config" /\ ref[2] = "."
         THEN BagGet(conf, Join(SubSeq(ref, 3, Len(ref))), source)
         ELSE LET parts == SplitDot(ref) IN
              IF Len(parts) = 2
              THEN BagGet(BagGet(outputs, parts[1], <<>>), parts[2], None)
              ELSE source

\* a faulty _resolve_reference: a reference to an output key that the
\* recorded bag of the node lacks is handed on as the reference text
ResolveMissingKeepsSource(source, conf, outputs) ==
    IF ~IsStr(source) \/ ~StartsWithDollar(source) THEN source
    ELSE LET ref == DropFirst(source.s) IN
         IF Len(ref) >= 2 /\ ref[1] = "config" /\ ref[2] = "."
         THEN BagGet(conf, Join(SubSeq(ref, 3, Len(ref))), None)
         ELSE LET parts == SplitDot(ref) IN
              IF Len(parts) = 2
              THEN BagGet(BagGet(outputs, parts[1], <<>>), parts[2], source)
              ELSE source

\* a faulty _resolve_reference: every string is parsed as a reference,
\* whether or not it starts with "$"
ResolveAnyString(source, conf, outputs) ==
    IF ~IsStr(source) THEN source
    ELSE LET ref == DropFirst(source.s) IN
         IF Len(ref) >= 2 /\ ref[1] = "config" /\ ref[2] = "."
         THEN BagGet(conf, Join(SubSeq(ref, 3, Len(ref))), None)
         ELSE LET parts == SplitDot(ref) IN
              IF Len(parts) = 2
              THEN BagGet(BagGet(outputs, parts[1], <<>>), parts[2], None)
              ELSE source

\* _resolve_reference(source, config, node_outputs)
_resolve_reference(source, conf, outputs) ==
    IF ~IsStr(source) \/ ~StartsWithDollar(source) THEN source
    ELSE LET ref == DropFirst(source.s) IN
         IF Len(ref) >= 2 /\ ref[1] = "config" /\ ref[2] = "."
         THEN BagGet(conf, Join(SubSeq(ref, 3, Len(ref))), None)
         ELSE LET parts == SplitDot(ref) IN
              IF Len(parts) = 2
              THEN BagGet(BagGet(outputs, parts[1], <<>>), parts[2], None)
              ELSE source

\* a faulty resolved_inputs: one entry for each input the node's unit
\* declares, None where the node does not wire it
ResolvedDeclared(node, conf, outputs) ==
    [k \in DeclaredInputs[node.transformer] |->
        IF \E j \in 1..Len(InputsOf(node)) : InputsOf(node)[j].k = k
        THEN LET j == CHOOSE j \in 1..Len(InputsOf(node)) : InputsOf(node)[j].k = k
             IN  _resolve_reference(InputsOf(node)[j].v, conf, outputs)
        ELSE None]

\* resolved_inputs of a node (executor.py lines 105-109)
ResolvedInputs(node, conf, outputs) ==
    [k \in {InputsOf(node)[j].k : j \in 1..Len(InputsOf(node))} |->
        LET j == CHOOSE j \in 1..Len(InputsOf(node)) : InputsOf(node)[j].k = k
        IN  _resolve_reference(InputsOf(node)[j].v, conf, outputs)]

\* d.update(e) of two dicts given as functions
Update(d, e) ==
    [k \in DOMAIN d \cup DOMAIN e |-> IF k \in DOMAIN e THEN e[k] ELSE d[k]]

-----------------------------------------------------------------------------
(* The graphs, dependency maps and stores the checks draw from              *)

MaxNodes == 3       \* most nodes of a graph
MaxRuns == 2        \* most executors constructed one after the other

\* the i-th node of a graph is named NodeNames[i]
NodeNames == <<"a", "b", "c", "d", "e">>

Item(k, v) == [k |-> k, v |-> v]
Ref(n, k) == StrV(<<"$", n, ".", k>>)
ConfigRef(k) == StrV(<<"$", "config", ".", k>>)
Shape(transformer, inputs) == [transformer |-> transformer, inputs |-> inputs]

\* the graph whose i-th node has the transformer and inputs of f[i]
GraphOf(f) ==
    [i \in DOMAIN f |-> [name |-> NodeNames[i],
                         transformer |-> f[i].transformer,
                         inputs |-> f[i].inputs]]

\* graph is one of the graphs of at most MaxNodes nodes that take their
\* transformer and inputs from shapes
GraphFrom(shapes, least) ==
    \E n \in least..MaxNodes : \E f \in [1..n -> shapes] : graph = GraphOf(f)

NamesOf(g) == {g[i].name : i \in 1..Len(g)}

\* node shapes for validate_graph: every kind of input source
ValSources ==
    {IntV(5), StrV(<<"hello">>), ConfigRef("start"),
     Ref("a", "result"), Ref("b", "result"), Ref("c", "result"),
     Ref("a", "echoed"), Ref("zz", "result"),
     StrV(<<"$", "a">>)}

ValShapes ==
    {Shape("add-one", <<>>)}
    \cup {Shape("add-one", <<Item("value", src)>>) : src \in ValSources}
    \cup {Shape("add-one", <<Item("value", Ref("a", "result")),
                            Item("other", Ref("b", "result"))>>),
          Shape("add-one", <<Item("value", Ref("zz", "result")),
                            Item("other", Ref("a", "echoed"))>>),
          Shape("add-one", <<Item("value", Ref("a", "echoed")),
                            Item("other", Ref("zz", "result"))>>),
          Shape("echo", <<>>),
          Shape("echo", <<Item("message", Ref("a", "result"))>>),
          Shape("echo", <<Item("message", Ref("b", "result"))>>),
          Shape("nonexistent", <<>>)}

\* deps is one of the dependency maps of at most MaxNodes keys: any
\* dependencies among the keys, and "zz", which is no key
DepsFrom ==
    \E n \in 0..MaxNodes :
        LET keys == SubSeq(NodeNames, 1, n) IN
        \E m \in [SeqToSet(keys) -> SUBSET (SeqToSet(keys) \cup {"zz"})] :
            deps = [keys |-> keys, map |-> m]

\* node shapes for the executor
ExecShapes ==
    {Shape("add-one", <<Item("value", ConfigRef("start"))>>),
     Shape("add-one", <<Item("value", ConfigRef("absent"))>>),
     Shape("double", <<Item("value", Ref("a", "result"))>>),
     Shape("double", <<Item("value", Ref("b", "result"))>>),
     Shape("double", <<Item("value", Ref("c", "result")),
                       Item("other", Ref("a", "result"))>>),
     Shape("double", <<Item("value", Ref("a", "slack"))>>),
     Shape("slack-fetcher", <<>>),
     Shape("nonexistent", <<>>)}

\* the graphs of SpecConfig: the first node is named "config"
ConfigNodeNames == <<"config", "b", "c", "d", "e">>

GraphNamed(names, f) ==
    [i \in DOMAIN f |-> [name |-> names[i],
                         transformer |-> f[i].transformer,
                         inputs |-> f[i].inputs]]

\* node shapes for the executor run on several configuration mappings
ConfigShapes ==
    {Shape("add-one", <<Item("value", ConfigRef("start"))>>),
     Shape("echo", <<Item("message", ConfigRef("result"))>>),
     Shape("double", <<Item("value", Ref("b", "result"))>>),
     Shape("echo", <<Item("message", Ref("b", "audio")),
                     Item("other", ConfigRef("start"))>>),
     Shape("piper-synthesizer", <<Item("output_dir", StrV(<<"out1">>))>>),
     Shape("piper-synthesizer", <<Item("output_dir", ConfigRef("result")),
                                  Item("script", Ref("c", "audio"))>>)}

\* the configuration mappings passed to execute
Configs ==
    {<<>>, Config, [start |-> IntV(1), result |-> StrV(<<"out2">>)]}

\* the graphs of SpecStore: node names and run ids with underscores
StoreNodeNames == <<"a_b", "b", "c", "d", "e">>
StoreRunIds == {"r1", "r1_a"}

StoreShapes ==
    {Shape("add-one", <<Item("value", ConfigRef("start"))>>),
     Shape("double", <<Item("value", Ref("a_b", "result"))>>),
     Shape("double", <<Item("value", Ref("b", "result"))>>)}

\* artifacts left in the directory by earlier processes
StaleFiles(rid, names, bag) == [f \in {ArtifactPath(rid, n) : n \in names} |-> bag]

StoreChoices(names) ==
    {StaleFiles("r1", S, [result |-> IntV(7)]) :
        S \in {{}, names} \cup {{n} : n \in names}}
    \cup {StaleFiles("r1", names, [other |-> IntV(7)]),
          StaleFiles("r0", names, [result |-> IntV(7)])}

-----------------------------------------------------------------------------
(* Actions                                                                  *)

execVars == <<artifact_dir, cached_nodes, run_id, files, execution_order, idx,
              node_outputs, all_artifacts, config, result, log, runs, runs_left>>

\* the caller runs validate_graph(graph, registry)
Validate ==
    /\ pc = "idle"
    /\ \E r \in validate_graph(graph, Registry) : vresult' = r
    /\ pc' = "validated"
    /\ UNCHANGED <<graph, deps, sorted, execVars>>
    /\ UNCHANGED libVars

\* the caller runs topological_sort(deps)
Sort ==
    /\ pc = "idle"
    /\ \E r \in topological_sort(deps) : sorted' = r
    /\ pc' = "sorted"
    /\ UNCHANGED <<graph, vresult, deps, execVars>>
    /\ UNCHANGED libVars

\* a faulty constructor: the outcome of validate_graph is not acted on
ConstructUnchecked(cachedSets, dirs, rids) ==
    /\ runs_left > 0
    /\ runs_left' = runs_left - 1
    /\ \E r \in validate_graph(graph, Registry) : vresult' = r
    /\ pc' = "constructed"
    /\ \E cached \in cachedSets, dir \in dirs, rid \in rids :
        /\ cached_nodes' = cached
        /\ artifact_dir' = dir
        /\ run_id' = rid
    /\ result' = NotRun
    /\ log' = <<>>
    /\ execution_order' = <<>>
    /\ idx' = 0
    /\ node_outputs' = <<>>
    /\ all_artifacts' = <<>>
    /\ UNCHANGED <<graph, deps, sorted, files, config, runs>>
    /\ UNCHANGED libVars

\* GraphExecutor(graph, registry, artifact_dir, cached_nodes, run_id) with the
\* arguments drawn from the given sets (executor.py lines 52-60):
\* validate_graph raises before the caller obtains the executor
ConstructWith(cachedSets, dirs, rids) ==
    /\ runs_left > 0
    /\ runs_left' = runs_left - 1
    /\ \E r \in validate_graph(graph, Registry) :
        /\ vresult' = r
        /\ IF r = Ok
           THEN /\ pc' = "constructed"
                /\ \E cached \in cachedSets, dir \in dirs, rid \in rids :
                    /\ cached_nodes' = cached
                    /\ artifact_dir' = dir
                    /\ run_id' = rid
           ELSE /\ pc' = "construct_failed"
                /\ UNCHANGED <<cached_nodes, artifact_dir, run_id>>
    /\ result' = NotRun
    /\ log' = <<>>
    /\ execution_order' = <<>>
    /\ idx' = 0
    /\ node_outputs' = <<>>
    /\ all_artifacts' = <<>>
    /\ UNCHANGED <<graph, deps, sorted, files, config, runs>>
    /\ UNCHANGED libVars

\* the caller constructs an executor with any cached nodes, with or without
\* an artifact directory
Construct ==
    /\ pc = "idle"
    /\ ConstructWith(SUBSET NamesOf(graph), {NoDir, "artifacts"}, {"r1"})

\* the caller constructs an executor with no cached nodes
ConstructFresh ==
    /\ pc = "idle"
    /\ ConstructWith({{}}, {NoDir, "artifacts"}, {"r1"})

\* after an execute call the caller constructs another executor for the same
\* graph, artifact directory and run id: with no node cached, with every node
\* cached, or with the nodes cached that the last run recorded
ConstructAgain ==
    /\ pc \in {"done", "raised"}
    /\ ConstructWith({{}, NamesOf(graph), DOMAIN node_outputs},
                     {artifact_dir}, {run_id})

\* the caller constructs an executor with no node or every node cached, with
\* or without an artifact directory
ConstructSome ==
    /\ pc = "idle"
    /\ ConstructWith({{}, NamesOf(graph)}, {NoDir, "artifacts"}, {"r1"})

\* the caller constructs the first executor on an empty artifact directory,
\* under either run id, with or without the directory
ConstructFirst ==
    /\ pc = "idle"
    /\ ConstructWith({{}}, {NoDir, "artifacts"}, StoreRunIds)

\* after an execute call the caller constructs another executor for the same
\* graph, under either run id, with or without the directory, with no node
\* or every node cached
ConstructNext ==
    /\ pc \in {"done", "raised"}
    /\ ConstructWith({{}, NamesOf(graph)}, {NoDir, "artifacts"}, StoreRunIds)

\* execute(config) up to its for loop (executor.py lines 86-91), with the
\* configuration mapping drawn from configs
ExecuteBeginWith(configs) ==
    /\ pc = "constructed"
    /\ \E c \in configs : config' = c
    /\ \E order \in topological_sort(_build_dependency_graph(graph)) :
        execution_order' = order
    /\ idx' = 1
    /\ node_outputs' = <<>>
    /\ all_artifacts' = <<>>
    /\ pc' = "running"
    /\ UNCHANGED <<graph, vresult, deps, sorted, artifact_dir, cached_nodes,
                   run_id, files, result, log, runs, runs_left>>
    /\ UNCHANGED libVars

ExecuteBegin == ExecuteBeginWith({Config})

\* execute(config) with any of the configuration mappings
ExecuteBeginAny == ExecuteBeginWith(Configs)

\* an entry of the history log: what happened to which node, with the inputs
\* handed to the unit, the exception the unit raised ("" for none) and the
\* nodes whose output was recorded at that moment
EventOf(op, node_name, inputs, exc, artifacts) ==
    [op |-> op, node |-> node_name, inputs |-> inputs, exc |-> exc,
     recorded |-> DOMAIN node_outputs, artifacts |-> artifacts]

\* an entry for a step that yields no file artifacts
Event(op, node_name, inputs, exc) == EventOf(op, node_name, inputs, exc, <<>>)

Finished(res, events) ==
    [result |-> res, log |-> events, cached |-> cached_nodes,
     run_id |-> run_id, dir |-> artifact_dir, config |-> config]

\* a faulty cache branch: the file the loaded bag names under "audio" is put
\* back into the file-artifact map
LoadCachedRestoring ==
    /\ pc = "running"
    /\ idx <= Len(execution_order)
    /\ LET node_name == execution_order[idx]
           cached_data == _load_cached_artifact(files, artifact_dir, run_id, node_name)
       IN  /\ node_name \in cached_nodes
           /\ cached_data # <<>>
           /\ node_outputs' = Update(node_outputs, [n \in {node_name} |-> cached_data[1]])
           /\ all_artifacts' =
                IF "audio" \in DOMAIN cached_data[1]
                THEN Update(all_artifacts, [audio |-> Join(cached_data[1]["audio"].s)])
                ELSE all_artifacts
           /\ log' = Append(log, Event("load", node_name, <<>>, ""))
    /\ idx' = idx + 1
    /\ UNCHANGED <<graph, vresult, deps, sorted, pc, artifact_dir, cached_nodes,
                   run_id, files, execution_order, config, result, runs,
                   runs_left>>
    /\ UNCHANGED libVars

\* one pass of the for loop that ends at "continue" (executor.py lines 95-99)
LoadCached ==
    /\ pc = "running"
    /\ idx <= Len(execution_order)
    /\ LET node_name == execution_order[idx]
           cached_data == _load_cached_artifact(files, artifact_dir, run_id, node_name)
       IN  /\ node_name \in cached_nodes
           /\ cached_data # <<>>
           /\ node_outputs' = Update(node_outputs, [n \in {node_name} |-> cached_data[1]])
           /\ log' = Append(log, Event("load", node_name, <<>>, ""))
    /\ idx' = idx + 1
    /\ UNCHANGED <<graph, vresult, deps, sorted, pc, artifact_dir, cached_nodes,
                   run_id, files, execution_order, all_artifacts, config,
                   result, runs, runs_left>>
    /\ UNCHANGED libVars

\* a faulty loop body: the exception is swallowed and the loop goes on
PropagateSwallowed(node_name, exc, events) ==
    /\ log' = events
    /\ idx' = idx + 1
    /\ UNCHANGED <<pc, result, runs, node_outputs, all_artifacts, files>>

\* an exception raised in the loop body leaves execute: nothing catches it
Propagate(node_name, exc, events) ==
    /\ pc' = "raised"
    /\ result' = [kind |-> "raised", exc |-> exc, node |-> node_name]
    /\ log' = events
    /\ runs' = Append(runs, Finished(result', events))
    /\ UNCHANGED <<idx, node_outputs, all_artifacts, files>>

\* a faulty rest of the loop body: a file artifact already in the map is kept
StoreOutputsKeepFirst(node_name, out, events) ==
    /\ node_outputs' = Update(node_outputs, [n \in {node_name} |-> out.data])
    /\ all_artifacts' = Update(out.artifacts, all_artifacts)
    /\ files' = _save_artifact(files, artifact_dir, run_id, node_name, out.data)
    /\ log' = events \o (IF artifact_dir = NoDir THEN <<>>
                         ELSE <<Event("save", node_name, <<>>, "")>>)
    /\ idx' = idx + 1
    /\ UNCHANGED <<pc, result, runs>>

\* a faulty rest of the loop body: the output is recorded but not persisted
StoreOutputsUnsaved(node_name, out, events) ==
    /\ node_outputs' = Update(node_outputs, [n \in {node_name} |-> out.data])
    /\ all_artifacts' = Update(all_artifacts, out.artifacts)
    /\ files' = files
    /\ log' = events
    /\ idx' = idx + 1
    /\ UNCHANGED <<pc, result, runs>>

\* the rest of the loop body after process returned (executor.py lines 115-120)
StoreOutputs(node_name, out, events) ==
    /\ node_outputs' = Update(node_outputs, [n \in {node_name} |-> out.data])
    /\ all_artifacts' = Update(all_artifacts, out.artifacts)
    /\ files' = _save_artifact(files, artifact_dir, run_id, node_name, out.data)
    /\ log' = events \o (IF artifact_dir = NoDir THEN <<>>
                         ELSE <<Event("save", node_name, <<>>, "")>>)
    /\ idx' = idx + 1
    /\ UNCHANGED <<pc, result, runs>>

\* one pass of the for loop that invokes the unit (executor.py lines 95-120),
\* for an executor whose cached_nodes is cached
InvokeWith(cached) ==
    /\ pc = "running"
    /\ idx <= Len(execution_order)
    /\ \E node_name \in {execution_order[idx]} :
       \E node \in {NodeTable(graph).map[node_name]} :
       \E resolved_inputs \in {ResolvedInputs(node, config, node_outputs)} :
           /\ ~(/\ node_name \in cached
                /\ _load_cached_artifact(files, artifact_dir, run_id, node_name) # <<>>)
           /\ IF GetRaises(Registry, node.transformer)
              THEN Propagate(node_name, "KeyError", log)
              ELSE \E out \in Process(node.transformer, resolved_inputs) :
                   IF out.raised
                   THEN Propagate(node_name, out.exc,
                                  Append(log, Event("invoke", node_name,
                                                    resolved_inputs, out.exc)))
                   ELSE StoreOutputs(node_name, out,
                                     Append(log, EventOf("invoke", node_name,
                                                         resolved_inputs, "",
                                                         out.artifacts)))
    /\ UNCHANGED <<graph, vresult, deps, sorted, artifact_dir, cached_nodes,
                   run_id, execution_order, config, runs_left>>
    /\ UNCHANGED libVars

Invoke == InvokeWith(cached_nodes)

\* execute returns (executor.py line 122)
Return ==
    /\ pc = "running"
    /\ idx > Len(execution_order)
    /\ result' = [kind |-> "returned", data |-> node_outputs, artifacts |-> all_artifacts]
    /\ runs' = Append(runs, Finished(result', log))
    /\ pc' = "done"
    /\ UNCHANGED <<graph, vresult, deps, sorted, artifact_dir, cached_nodes,
                   run_id, files, execution_order, idx, node_outputs,
                   all_artifacts, config, log, runs_left>>
    /\ UNCHANGED libVars

-----------------------------------------------------------------------------
(* Specifications                                                           *)

\* the registry, the hash seed and the story history where they play no part
NoCall == [op |-> "none", kind |-> "not_run"]

\* the history file does not exist
NoFile == [kind |-> "no_file"]

InitLib ==
    /\ _transformers = EmptyDict
    /\ reg_calls = <<>>
    /\ reg_out = NoCall
    /\ hash_seed = 0
    /\ stories = EmptyDict
    /\ max_age_days = 7
    /\ disk = NoFile
    /\ hist_out = NoCall

InitEngine ==
    /\ vresult = NotRun
    /\ sorted = NotRun
    /\ pc = "idle"
    /\ artifact_dir = NoDir
    /\ cached_nodes = {}
    /\ run_id = ""
    /\ execution_order = <<>>
    /\ idx = 0
    /\ node_outputs = <<>>
    /\ all_artifacts = <<>>
    /\ config = <<>>
    /\ result = NotRun
    /\ log = <<>>
    /\ runs = <<>>

InitRest == InitEngine /\ InitLib

\* validate_graph alone, on every graph made of ValShapes
InitValidate ==
    /\ GraphFrom(ValShapes, 0)
    /\ deps = EmptyDict
    /\ files = <<>>
    /\ runs_left = 0
    /\ InitRest

NextValidate == Validate

SpecValidate == InitValidate /\ [][NextValidate]_vars

\* topological_sort alone, on every dependency map of DepsFrom
InitSort ==
    /\ graph = <<>>
    /\ DepsFrom
    /\ files = <<>>
    /\ runs_left = 0
    /\ InitRest

NextSort == Sort

SpecSort == InitSort /\ [][NextSort]_vars

\* one executor and one execute call, with artifacts of earlier processes
Init ==
    /\ GraphFrom(ExecShapes, 1)
    /\ deps = EmptyDict
    /\ files \in StoreChoices(NamesOf(graph))
    /\ runs_left = 1
    /\ InitRest

Next == Construct \/ ExecuteBegin \/ LoadCached \/ Invoke \/ Return

Spec == Init /\ [][Next]_vars

\* up to MaxRuns executors and execute calls one after the other on one graph,
\* starting with an empty artifact directory
InitRerun ==
    /\ GraphFrom(ExecShapes, 1)
    /\ deps = EmptyDict
    /\ files = <<>>
    /\ runs_left = MaxRuns
    /\ InitRest

NextRerun ==
    ConstructFresh \/ ConstructAgain \/ ExecuteBegin \/ LoadCached \/ Invoke \/ Return

SpecRerun == InitRerun /\ [][NextRerun]_vars

\* one executor and one execute call on a graph whose first node is named
\* "config", with any of the configuration mappings
InitConfig ==
    /\ \E n \in 1..MaxNodes : \E f \in [1..n -> ConfigShapes] :
            graph = GraphNamed(ConfigNodeNames, f)
    /\ deps = EmptyDict
    /\ files \in {<<>>, StaleFiles("r1", NamesOf(graph),
                                    [result |-> IntV(7), audio |-> StrV(<<"old.wav">>)])}
    /\ runs_left = 1
    /\ InitRest

NextConfig == ConstructSome \/ ExecuteBeginAny \/ LoadCached \/ Invoke \/ Return

SpecConfig == InitConfig /\ [][NextConfig]_vars

\* up to MaxRuns executors and execute calls on one graph and one artifact
\* directory, which starts empty, under run ids and node names that contain
\* underscores
InitStore ==
    /\ \E n \in 1..MaxNodes : \E f \in [1..n -> StoreShapes] :
            graph = GraphNamed(StoreNodeNames, f)
    /\ deps = EmptyDict
    /\ files = <<>>
    /\ runs_left = MaxRuns
    /\ InitRest

NextStore ==
    ConstructFirst \/ ConstructNext \/ ExecuteBegin \/ LoadCached \/ Invoke \/ Return

SpecStore == InitStore /\ [][NextStore]_vars

-----------------------------------------------------------------------------
(* Properties: helpers                                                      *)

\* position of x in q
Pos(q, x) == CHOOSE i \in 1..Len(q) : q[i] = x

IsPermutationOf(q, S) == Len(q) = Cardinality(S) /\ SeqToSet(q) = S

RECURSIVE ReachFrom(_, _, _)
\* the keys reached from the set S in at most k steps along the dependencies
ReachFrom(d, S, k) ==
    IF k = 0 THEN S
    ELSE ReachFrom(d, S \cup UNION {DictGet(d, n, {}) : n \in S}, k - 1)

\* the keys n depends on, directly or transitively
Reach(d, n) == ReachFrom(d, DictGet(d, n, {}), Len(d.keys))

Acyclic(d) == \A n \in SeqToSet(d.keys) : n \notin Reach(d, n)

\* every dependency is a key
Closed(d) == \A n \in SeqToSet(d.keys) : d.map[n] \subseteq SeqToSet(d.keys)

\* the kinds of input source
IsReference(source) ==
    IsStr(source) /\ StartsWithDollar(source) /\ ~StartsWithConfig(source)
IsNodeRef(source) == IsReference(source) /\ FirstDot(DropFirst(source.s)) # 0
IsMalformed(source) == IsReference(source) /\ FirstDot(DropFirst(source.s)) = 0
RefNode(source) == SplitDot(DropFirst(source.s))[1]
RefKey(source) == SplitDot(DropFirst(source.s))[2]

\* the entry of the graph that defines the node called name: the last one
Entry(g, name) ==
    g[CHOOSE i \in 1..Len(g) :
        g[i].name = name /\ \A j \in (i + 1)..Len(g) : g[j].name # name]

\* node A of g has an input that is an output of node B
DependsOn(g, A, B) ==
    /\ A \in NamesOf(g)
    /\ \E j \in 1..Len(Entry(g, A).inputs) :
        /\ IsNodeRef(Entry(g, A).inputs[j].v)
        /\ RefNode(Entry(g, A).inputs[j].v) = B

\* the dependencies among the nodes of g, read off the inputs
RefGraph(g) ==
    [keys |-> [i \in 1..Len(g) |-> g[i].name],
     map |-> [A \in NamesOf(g) |-> {B \in NamesOf(g) : DependsOn(g, A, B)}]]

HasCycle(g) == ~Acyclic(RefGraph(g))

\* path is a cycle of g: it returns to its first node along dependencies
IsCyclePath(path, g) ==
    /\ Len(path) >= 2
    /\ path[1] = path[Len(path)]
    /\ \A i \in 1..(Len(path) - 1) : DependsOn(g, path[i], path[i + 1])

AllRegistered(g) == \A i \in 1..Len(g) : g[i].transformer \in DOMAIN Registry

\* input j of entry i names a node that does not exist, or an output that
\* the unit of the node it names does not declare
Dangling(g, i, j) ==
    LET source == g[i].inputs[j].v IN
    /\ IsNodeRef(source)
    /\ \/ RefNode(source) \notin NamesOf(g)
       \/ /\ Entry(g, RefNode(source)).transformer \in DOMAIN Registry
          /\ RefKey(source) \notin
                SeqToSet(Registry[Entry(g, RefNode(source)).transformer])

InputPositions(g) == {<<i, j>> \in (1..Len(g)) \X (1..2) : j <= Len(g[i].inputs)}

DanglingPositions(g) == {p \in InputPositions(g) : Dangling(g, p[1], p[2])}

\* p comes before q in definition order
Before(p, q) == p[1] < q[1] \/ (p[1] = q[1] /\ p[2] < q[2])

FirstDangling(g) ==
    CHOOSE p \in DanglingPositions(g) :
        \A q \in DanglingPositions(g) : ~Before(q, p)

\* the error r names the node, the input key and the reference of position p
Identifies(r, g, p) ==
    LET source == g[p[1]].inputs[p[2]].v IN
    /\ r.exc = "GraphValidationError"
    /\ r.node = g[p[1]].name
    /\ r.key = g[p[1]].inputs[p[2]].k
    /\ IF RefNode(source) \notin NamesOf(g)
       THEN r.kind = "unknown_node" /\ r.ref = RefNode(source)
       ELSE r.kind = "unknown_output" /\ r.ref = RefKey(source)

\* every reference is well formed and names a declared output of a node
WellWired(g) ==
    /\ AllRegistered(g)
    /\ \A p \in InputPositions(g) :
        /\ ~IsMalformed(g[p[1]].inputs[p[2]].v)
        /\ ~Dangling(g, p[1], p[2])

-----------------------------------------------------------------------------
(* Properties of topological_sort (SpecSort)                                *)

\* C2: for an acyclic dependency map whose dependencies are all keys,
\* topological_sort returns every key exactly once, and every dependency
\* of a node before the node
C2_TopologicalOrder ==
    (pc = "sorted" /\ Acyclic(deps) /\ Closed(deps)) =>
        /\ IsPermutationOf(sorted, SeqToSet(deps.keys))
        /\ \A A \in SeqToSet(deps.keys) : \A B \in deps.map[A] :
            Pos(sorted, B) < Pos(sorted, A)

\* two independent nodes a and b feed c, and all three have been ordered
C2_Witness ==
    /\ pc = "sorted"
    /\ deps.keys = <<"a", "b", "c">>
    /\ deps.map["a"] = {} /\ deps.map["b"] = {} /\ deps.map["c"] = {"a", "b"}
    /\ Len(sorted) = 3

-----------------------------------------------------------------------------
(* Properties of validate_graph (SpecValidate)                              *)

\* C3 as stated: every graph whose references contain a cycle fails with
\* the circular-dependency error, and the reported path is a cycle
C3_CycleAlwaysReported ==
    (pc = "validated" /\ HasCycle(graph)) =>
        vresult.kind = "cycle" /\ IsCyclePath(vresult.path, graph)

\* C3 as amended: a graph whose references contain a cycle is never
\* accepted; if it is well wired it fails with the circular-dependency
\* error; and every reported path is a cycle of the graph
C3_CycleRejected ==
    pc = "validated" =>
        /\ HasCycle(graph) => vresult # Ok
        /\ (HasCycle(graph) /\ WellWired(graph)) => vresult.kind = "cycle"
        /\ vresult.kind = "cycle" => IsCyclePath(vresult.path, graph)

\* a cycle through three nodes has been reported
C3_Witness ==
    /\ pc = "validated"
    /\ vresult.kind = "cycle"
    /\ Len(vresult.path) = 4

\* C4 as stated: a graph with a dangling reference fails with an error that
\* identifies the referencing node, the input key and the reference
C4_DanglingIdentified ==
    (pc = "validated" /\ DanglingPositions(graph) # {}) =>
        \E p \in DanglingPositions(graph) : Identifies(vresult, graph, p)

\* C4 as amended: a graph with a dangling reference is never accepted; if
\* every unit is registered it fails with a graph-invalid error, which
\* identifies the first dangling reference in definition order unless a
\* malformed reference comes before it
C4_FirstDanglingIdentified ==
    (pc = "validated" /\ DanglingPositions(graph) # {}) =>
        /\ vresult # Ok
        /\ AllRegistered(graph) =>
            /\ vresult.exc = "GraphValidationError"
            /\ (\A q \in InputPositions(graph) :
                    Before(q, FirstDangling(graph)) =>
                        ~IsMalformed(graph[q[1]].inputs[q[2]].v))
               => Identifies(vresult, graph, FirstDangling(graph))

\* the second input of a node has been reported as naming an undeclared output
C4_Witness ==
    /\ pc = "validated"
    /\ vresult.kind = "unknown_output"
    /\ vresult.key = "other"

\* C5: validate_graph returns or raises GraphValidationError, nothing else
C5_OnlyGraphInvalid ==
    pc = "validated" => vresult.exc \in {"none", "GraphValidationError"}

-----------------------------------------------------------------------------
(* Properties of GraphExecutor (Spec, SpecRerun)                            *)

\* the for loop of execute is at node n
AtNode(n) ==
    pc = "running" /\ idx <= Len(execution_order) /\ execution_order[idx] = n

\* node n is marked cached and its artifact exists under the run id
Hit(n) ==
    /\ n \in cached_nodes
    /\ artifact_dir # NoDir
    /\ ArtifactPath(run_id, n) \in DOMAIN files

LogIndex == 1..Len(log)

\* C1: when a node's unit is invoked, or its output loaded, every node it
\* references already has its output recorded
C1_DependenciesRecorded ==
    \A k \in LogIndex :
        log[k].op \in {"invoke", "load"} =>
            \A B \in NamesOf(graph) :
                DependsOn(graph, log[k].node, B) => B \in log[k].recorded

\* node b, which depends on node c defined after it, has been invoked
C1_Witness ==
    \E k \in LogIndex :
        /\ log[k].op = "invoke"
        /\ log[k].node = "b"
        /\ DependsOn(graph, "b", "c")
        /\ "c" \in log[k].recorded

\* C6: construction validates first: for an invalid graph it fails with the
\* validation error, no executor exists, nothing is invoked, read or written
C6_InvalidGraphNoExecutor ==
    /\ [](pc \in {"constructed", "running", "done", "raised"} => vresult = Ok)
    /\ [][(vresult' # NotRun /\ vresult' # Ok) =>
            /\ pc' = "construct_failed"
            /\ files' = files
            /\ log' = <<>>
            /\ node_outputs' = <<>>
            /\ result' = NotRun
            /\ runs' = <<>>]_vars

\* construction failed on a cycle while artifacts lay in the directory
C6_Witness ==
    /\ pc = "construct_failed"
    /\ vresult.kind = "cycle"
    /\ files # <<>>

\* C7: on a cache hit the artifact's content becomes the node's output, the
\* unit is not invoked, nothing is written, and the nodes that reference the
\* node receive the loaded values
C7_CacheHit ==
    /\ [][\A n \in NamesOf(graph) : (AtNode(n) /\ Hit(n)) =>
            /\ n \in DOMAIN node_outputs'
            /\ node_outputs'[n] = files[ArtifactPath(run_id, n)]
            /\ \A m \in DOMAIN node_outputs : node_outputs'[m] = node_outputs[m]
            /\ files' = files
            /\ all_artifacts' = all_artifacts
            /\ log' = Append(log, Event("load", n, <<>>, ""))
            /\ pc' = "running"]_vars
    /\ [](\A i \in LogIndex : log[i].op = "load" =>
            /\ log[i].node \in cached_nodes
            /\ ArtifactPath(run_id, log[i].node) \in DOMAIN files
            /\ \A k \in LogIndex : log[k].op \in {"invoke", "save"} =>
                                        log[k].node # log[i].node
            /\ \A k \in LogIndex : log[k].op = "invoke" =>
                \A j \in 1..Len(Entry(graph, log[k].node).inputs) :
                    LET item == Entry(graph, log[k].node).inputs[j] IN
                    (IsNodeRef(item.v) /\ RefNode(item.v) = log[i].node) =>
                        log[k].inputs[item.k] =
                            BagGet(files[ArtifactPath(run_id, log[i].node)],
                                   RefKey(item.v), None))

\* a node was loaded from its artifact and a node that references it was
\* then invoked with the artifact's value
C7_Witness ==
    \E i \in LogIndex, k \in LogIndex :
        /\ log[i].op = "load"
        /\ log[k].op = "invoke"
        /\ DependsOn(graph, log[k].node, log[i].node)
        /\ log[k].inputs["value"] = IntV(7)

\* C8: at a node that is marked cached but has no artifact, the step the
\* executor takes is a step of the executor with no cached nodes
C8_CacheMiss ==
    [][\A n \in NamesOf(graph) :
        (AtNode(n) /\ n \in cached_nodes /\ ~Hit(n)) => InvokeWith({})]_vars

\* a node marked cached was invoked and its output persisted
C8_Witness ==
    \E k \in LogIndex : log[k].op = "save" /\ log[k].node \in cached_nodes

\* C9: after a successful run with an artifact directory, a run with every
\* node cached returns the same outputs and invokes no unit
C9_RerunIdentical ==
    \A r \in 2..Len(runs) :
        (/\ runs[r - 1].result.kind = "returned"
         /\ runs[r - 1].dir # NoDir
         /\ runs[r].cached = NamesOf(graph)) =>
            /\ runs[r].result.kind = "returned"
            /\ runs[r].result.data = runs[r - 1].result.data
            /\ \A k \in 1..Len(runs[r].log) : runs[r].log[k].op # "invoke"

\* C10: a unit that raises ends the run at its node: the error is the
\* result, the unit ran once, the node has no output and no artifact, and
\* nothing happens afterwards
C10_RaiseAborts ==
    /\ [](\A k \in LogIndex : (log[k].op = "invoke" /\ log[k].exc # "") =>
            /\ k = Len(log)
            /\ pc = "raised"
            /\ result = [kind |-> "raised", exc |-> log[k].exc, node |-> log[k].node]
            /\ \A j \in LogIndex : (j # k) => log[j].node # log[k].node
            /\ log[k].node \notin DOMAIN node_outputs)
    /\ [][pc' = "raised" => (files' = files /\ node_outputs' = node_outputs)]_vars
    /\ [][pc = "raised" => pc' = "raised"]_vars

\* the second node of the order raised TypeError and a third was never reached
C10_Witness ==
    /\ pc = "raised"
    /\ result.exc = "TypeError"
    /\ idx = 2
    /\ Len(execution_order) = 3

-----------------------------------------------------------------------------
(* Properties of input resolution (SpecConfig, Spec)                        *)

\* the source is the text "$config." followed by a key
IsConfigRef(source) ==
    /\ source.t = "str"
    /\ Len(source.s) >= 4
    /\ source.s[1] = "$" /\ source.s[2] = "config" /\ source.s[3] = "."

ConfigKey(source) == Join(SubSeq(source.s, 4, Len(source.s)))

\* the invocations of the log
Invocations == {k \in LogIndex : log[k].op = "invoke"}

\* the positions of the inputs of the node that log entry k is about
InputsAt(k) == 1..Len(Entry(graph, log[k].node).inputs)
InputAt(k, j) == Entry(graph, log[k].node).inputs[j]

\* C11: every input wired to $config.x is handed to the unit as the value of
\* x in the configuration mapping passed to execute, whatever has been
\* recorded and even with a node named config; no node depends on a node
\* through a $config.x input
C11_ConfigResolved ==
    /\ \A k \in Invocations : \A j \in InputsAt(k) :
        IsConfigRef(InputAt(k, j).v) =>
            log[k].inputs[InputAt(k, j).k] =
                IF ConfigKey(InputAt(k, j).v) \in DOMAIN config
                THEN config[ConfigKey(InputAt(k, j).v)]
                ELSE None
    /\ \A i \in 1..Len(graph) :
        _build_dependency_graph(graph).map[graph[i].name] =
            {RefNode(graph[i].inputs[j].v) :
                j \in {j \in 1..Len(graph[i].inputs) :
                        ~IsConfigRef(graph[i].inputs[j].v)
                        /\ IsNodeRef(graph[i].inputs[j].v)}}

\* the node named config has recorded an output "result", and another node
\* wired to $config.result was then invoked with the absent value because
\* the configuration mapping has no key "result"
C11_Witness ==
    \E k \in Invocations :
        /\ "config" \in log[k].recorded
        /\ "result" \in DOMAIN node_outputs["config"]
        /\ \E j \in InputsAt(k) :
            /\ InputAt(k, j).v = ConfigRef("result")
            /\ log[k].inputs[InputAt(k, j).k] = None

\* the nodes of the invocations of the log, in the order of the log
InvokedNodes ==
    LET IsInvoke(e) == e.op = "invoke"
        sel == SelectSeq(log, IsInvoke)
    IN  [i \in 1..Len(sel) |-> sel[i].node]

NoLoads == \A k \in LogIndex : log[k].op # "load"

RECURSIVE ChainsFrom(_, _)
\* the chain orders of the graph that begin with the nodes of p
ChainsFrom(g, p) ==
    IF Len(p) = Len(g) THEN {p}
    ELSE UNION {ChainsFrom(g, Append(p, n)) :
                n \in {n \in NamesOf(g) \ SeqToSet(p) :
                        /\ Len(Entry(g, n).inputs) = 1
                        /\ IsNodeRef(Entry(g, n).inputs[1].v)
                        /\ RefNode(Entry(g, n).inputs[1].v) = p[Len(p)]}}

\* the orders p of the graph's nodes in which the graph is a chain: the one
\* input of the first is $config.start and the one input of each other node
\* is an output of the node before it
ChainOrders(g) ==
    LET Heads == {n \in NamesOf(g) :
                    /\ Len(Entry(g, n).inputs) = 1
                    /\ Entry(g, n).inputs[1].v = ConfigRef("start")}
    IN  UNION {ChainsFrom(g, <<n>>) : n \in Heads}

\* the value node p[i] of a chain takes in: the configuration's start, or the
\* referenced output of the node before it
ChainInput(g, p, i, outputs) ==
    IF i = 1 THEN BagGet(config, "start", None)
    ELSE BagGet(outputs[p[i - 1]], RefKey(Entry(g, p[i]).inputs[1].v), None)

UnitsOf(g, p) == [i \in 1..Len(p) |-> Entry(g, p[i]).transformer]

\* C12: in a run of a chain that loads nothing from the cache the units are
\* invoked in chain order, whatever the order of the definition, each
\* recorded output is the unit applied to the output before it, and with
\* start = 5 the chain add-one, double, double ends in 24 and the chain
\* add-one, double in 12
C12_Chain ==
    \A p \in ChainOrders(graph) :
        (pc \in {"running", "done", "raised"} /\ NoLoads) =>
            /\ Len(InvokedNodes) <= Len(p)
            /\ InvokedNodes = SubSeq(p, 1, Len(InvokedNodes))
            /\ \A i \in 1..Len(p) : p[i] \in DOMAIN node_outputs =>
                \E out \in Process(Entry(graph, p[i]).transformer,
                                   [k \in {Entry(graph, p[i]).inputs[1].k} |->
                                        ChainInput(graph, p, i, node_outputs)]) :
                    ~out.raised /\ node_outputs[p[i]] = out.data
            /\ (pc = "done" /\ config = [start |-> IntV(5)]) =>
                /\ result.kind = "returned"
                /\ UnitsOf(graph, p) = <<"add-one", "double", "double">> =>
                        result.data[p[3]]["result"] = IntV(24)
                /\ UnitsOf(graph, p) = <<"add-one", "double">> =>
                        result.data[p[2]]["result"] = IntV(12)

\* the chain b, a, c of the units add-one, double, double has run to the end
\* and the result of c is 24
C12_Witness ==
    /\ pc = "done"
    /\ NoLoads
    /\ <<"b", "a", "c">> \in ChainOrders(graph)
    /\ UnitsOf(graph, <<"b", "a", "c">>) = <<"add-one", "double", "double">>
    /\ InvokedNodes = <<"b", "a", "c">>
    /\ result.data["c"]["result"] = IntV(24)

\* the keys of the inputs mapping of the node that log entry k is about
WiredKeys(k) == {InputAt(k, j).k : j \in InputsAt(k)}

\* C13 as stated: the input bag of every invocation has exactly the keys
\* that the node's unit declares as its inputs
C13_ExactlyDeclaredKeys ==
    \A k \in Invocations :
        DOMAIN log[k].inputs = DeclaredInputs[Entry(graph, log[k].node).transformer]

\* C13 amended: the input bag of every invocation has exactly the keys of
\* the node's inputs mapping, whatever the unit declares, and a key whose
\* $config reference has no value is present with the absent value
C13_ExactlyWiredKeys ==
    \A k \in Invocations :
        /\ DOMAIN log[k].inputs = WiredKeys(k)
        /\ \A j \in InputsAt(k) :
            (IsConfigRef(InputAt(k, j).v)
             /\ ConfigKey(InputAt(k, j).v) \notin DOMAIN config) =>
                log[k].inputs[InputAt(k, j).k] = None

\* a unit that declares the one input "value" was invoked with the keys
\* "value" and "other"
C13_Witness ==
    \E k \in Invocations :
        /\ DeclaredInputs[Entry(graph, log[k].node).transformer] = {"value"}
        /\ DOMAIN log[k].inputs = {"value", "other"}

\* the inputs of node n that are $config references to keys the
\* configuration mapping lacks
AbsentConfigInputs(n) ==
    {j \in 1..Len(Entry(graph, n).inputs) :
        /\ IsConfigRef(Entry(graph, n).inputs[j].v)
        /\ ConfigKey(Entry(graph, n).inputs[j].v) \notin DOMAIN config}

\* C14: at a node with a $config.x input whose key the configuration lacks,
\* the unit is invoked with None for that input; if the unit returns, its
\* output is recorded and the loop goes on, and the run ends there only with
\* an exception that the unit raises on these inputs
C14_AbsentConfigKey ==
    [][\A n \in NamesOf(graph) :
        (AtNode(n) /\ ~Hit(n) /\ AbsentConfigInputs(n) # {}) =>
            /\ Len(log') > Len(log)
            /\ LET e == log'[Len(log) + 1] IN
               /\ e.op = "invoke" /\ e.node = n
               /\ \A j \in AbsentConfigInputs(n) :
                    e.inputs[Entry(graph, n).inputs[j].k] = None
               /\ e.exc = "" =>
                    /\ pc' = "running"
                    /\ idx' = idx + 1
                    /\ n \in DOMAIN node_outputs'
               /\ e.exc # "" =>
                    /\ pc' = "raised"
                    /\ result' = [kind |-> "raised", exc |-> e.exc, node |-> n]
                    /\ \E out \in Process(Entry(graph, n).transformer, e.inputs) :
                        out.raised /\ out.exc = e.exc]_vars

\* an echo unit was invoked with None for its $config.result input, returned,
\* and another unit was invoked after it
C14_Witness ==
    /\ "result" \notin DOMAIN config
    /\ \E i \in Invocations, k \in Invocations :
        /\ i < k
        /\ log[i].exc = ""
        /\ Entry(graph, log[i].node).inputs = <<Item("message", ConfigRef("result"))>>
        /\ log[i].inputs = [message |-> None]

-----------------------------------------------------------------------------
(* Properties of a whole run (Spec, SpecConfig, SpecStore)                  *)

\* the log entries in which node n was loaded from the cache or invoked
StepsOf(n) == {k \in LogIndex : log[k].node = n /\ log[k].op \in {"load", "invoke"}}

\* C15: when execute has returned, every node of the graph was either loaded
\* from the cache or invoked, once, and the returned output map has exactly
\* the graph's node names as its keys
C15_EachNodeOnce ==
    pc = "done" =>
        /\ result.kind = "returned"
        /\ DOMAIN result.data = NamesOf(graph)
        /\ \A n \in NamesOf(graph) : Cardinality(StepsOf(n)) = 1
        /\ \A k \in LogIndex : log[k].node \in NamesOf(graph)

\* a run of three nodes has returned, with one node loaded from the cache and
\* another invoked
C15_Witness ==
    /\ pc = "done"
    /\ Len(graph) = 3
    /\ \E i, k \in LogIndex : log[i].op = "load" /\ log[k].op = "invoke"

\* C16: what _load_cached_artifact reads back from the artifact that
\* _save_artifact wrote for a node equals the output bag the unit returned
C16_RoundTrip ==
    \A k \in LogIndex : log[k].op = "save" =>
        _load_cached_artifact(files, artifact_dir, run_id, log[k].node)
            = <<node_outputs[log[k].node]>>

\* the entries of the logs of the finished runs: <<run, position>>
RunEntries == UNION {{<<r, k>> : k \in 1..Len(runs[r].log)} : r \in 1..Len(runs)}

EntryOp(e) == runs[e[1]].log[e[2]].op
EntryNode(e) == runs[e[1]].log[e[2]].node
EntryRunId(e) == runs[e[1]].run_id

\* C17: artifacts saved for distinct (run id, node name) pairs lie in
\* distinct files, and a node loaded from the cache under a run id reads an
\* artifact that was saved for that node under that run id
C17_KeyedByPair ==
    /\ \A e, f \in RunEntries :
        (/\ EntryOp(e) = "save" /\ EntryOp(f) = "save"
         /\ <<EntryRunId(e), EntryNode(e)>> # <<EntryRunId(f), EntryNode(f)>>) =>
            ArtifactPath(EntryRunId(e), EntryNode(e))
                # ArtifactPath(EntryRunId(f), EntryNode(f))
    /\ \A e \in RunEntries : EntryOp(e) = "load" =>
        \E f \in RunEntries :
            /\ f[1] < e[1]
            /\ EntryOp(f) = "save"
            /\ EntryNode(f) = EntryNode(e)
            /\ EntryRunId(f) = EntryRunId(e)

\* C18: without an artifact directory no file is written, nothing is loaded
\* or saved, every node, cached or not, is invoked, and the run ends as the
\* run with a directory that loads nothing ends
C18_NoDirectory ==
    /\ [][artifact_dir' = NoDir => files' = files]_vars
    /\ [](artifact_dir = NoDir => \A k \in LogIndex : log[k].op = "invoke")
    /\ [](\A r, q \in 1..Len(runs) :
            (/\ runs[r].dir = NoDir
             /\ runs[q].dir # NoDir
             /\ \A k \in 1..Len(runs[q].log) : runs[q].log[k].op # "load") =>
                runs[r].result = runs[q].result)

\* after a run with a directory, a run without one, under the same run id
\* and with every node cached, has returned while the artifacts of the first
\* lie in the directory
C18_Witness ==
    /\ Len(runs) = 2
    /\ runs[1].dir # NoDir /\ runs[1].result.kind = "returned"
    /\ runs[2].dir = NoDir /\ runs[2].result.kind = "returned"
    /\ runs[2].run_id = runs[1].run_id
    /\ runs[2].cached = NamesOf(graph)
    /\ Len(graph) >= 2
    /\ ArtifactPath(runs[2].run_id, "b") \in DOMAIN files

\* the invocations that returned a file artifact under the key
Producers(key) ==
    {k \in Invocations : log[k].exc = "" /\ key \in DOMAIN log[k].artifacts}

LastProducer(key) == CHOOSE k \in Producers(key) : \A j \in Producers(key) : j <= k

\* C19: the file-artifact map that execute returns has exactly the keys that
\* some invoked unit returned, each with the value of the last invocation
\* that returned it
C19_LastWriterWins ==
    pc = "done" =>
        /\ DOMAIN result.artifacts =
                UNION {DOMAIN log[k].artifacts : k \in Invocations}
        /\ \A key \in DOMAIN result.artifacts :
                result.artifacts[key] = log[LastProducer(key)].artifacts[key]

\* two synthesizer nodes returned different audio files; the node defined
\* first ran last and its file is the one returned
C19_Witness ==
    /\ pc = "done"
    /\ \E i \in Producers("audio"), k \in Producers("audio") :
        /\ i < k
        /\ log[k].node = "config"
        /\ log[i].artifacts["audio"] # log[k].artifacts["audio"]
        /\ result.artifacts["audio"] = log[k].artifacts["audio"]

-----------------------------------------------------------------------------
(* Properties of validate_graph, continued (SpecValidate)                   *)

\* the positions of the nodes bound to a unit name that is not registered
Unregistered(g) == {i \in 1..Len(g) : g[i].transformer \notin DOMAIN Registry}

\* C20: for a graph with a node bound to an unregistered unit name,
\* validate_graph fails with the unknown-transformer error that names such a
\* node and its unit name
C20_UnknownUnitReported ==
    (pc = "validated" /\ Unregistered(graph) # {}) =>
        \E i \in Unregistered(graph) :
            vresult = Invalid("unknown_transformer", graph[i].name, "",
                              graph[i].transformer)

-----------------------------------------------------------------------------
(* registry.py: TransformerRegistry                                         *)

MaxRegisters == 3

\* unit classes: their declared name and outputs. Two classes declare "echo".
UnitClasses ==
    { [class |-> "test_registry.MockTransformer", name |-> "mock",
       outputs |-> <<"output">>],
      [class |-> "test_core.EchoTransformer", name |-> "echo",
       outputs |-> <<"echoed">>],
      [class |-> "test_graph.EchoTransformer", name |-> "echo",
       outputs |-> <<"echoed">>],
      [class |-> "test_executor.AddOneTransformer", name |-> "add-one",
       outputs |-> <<"result">>] }

\* the names that get is called with
LookupNames == {"mock", "echo", "add-one", "unknown"}

\* transformer_class(): the serial tells the instances of one class apart
Instance(cls, serial) ==
    [class |-> cls.class, name |-> cls.name, outputs |-> cls.outputs,
     serial |-> serial]

\* a faulty register that keeps the instance already stored under the name
RegisterKeepFirst(t, instance) ==
    IF instance.name \in SeqToSet(t.keys) THEN t
    ELSE DictSet(t, instance.name, instance)

\* self._transformers[instance.name] = instance
Register(t, instance) == DictSet(t, instance.name, instance)

\* a faulty get that falls back to the first registered unit
RegistryGetFirst(t, name) ==
    IF name \notin SeqToSet(t.keys)
    THEN IF t.keys = <<>>
         THEN [op |-> "get", kind |-> "raised", exc |-> "KeyError", name |-> name]
         ELSE [op |-> "get", kind |-> "returned", value |-> t.map[t.keys[1]],
               name |-> name]
    ELSE [op |-> "get", kind |-> "returned", value |-> t.map[name], name |-> name]

\* TransformerRegistry.get(name)
RegistryGet(t, name) ==
    IF name \notin SeqToSet(t.keys)
    THEN [op |-> "get", kind |-> "raised", exc |-> "KeyError", name |-> name]
    ELSE [op |-> "get", kind |-> "returned", value |-> t.map[name], name |-> name]

\* TransformerRegistry.list_all()
list_all(t) == t.keys

\* registry.register(transformer_class)
RegisterCall ==
    /\ Len(reg_calls) < MaxRegisters
    /\ \E cls \in UnitClasses :
        /\ _transformers' = Register(_transformers,
                                     Instance(cls, Len(reg_calls) + 1))
        /\ reg_calls' = Append(reg_calls, cls)
    /\ reg_out' = [op |-> "register", kind |-> "returned"]
    /\ UNCHANGED <<graph, vresult, deps, sorted, pc, execVars, hash_seed,
                   stories, max_age_days, disk, hist_out>>

\* registry.get(name)
GetCall ==
    /\ \E name \in LookupNames : reg_out' = RegistryGet(_transformers, name)
    /\ UNCHANGED <<graph, vresult, deps, sorted, pc, execVars, _transformers,
                   reg_calls, hash_seed, stories, max_age_days, disk, hist_out>>

\* registry.list_all()
ListAllCall ==
    /\ reg_out' = [op |-> "list_all", kind |-> "returned",
                   value |-> list_all(_transformers)]
    /\ UNCHANGED <<graph, vresult, deps, sorted, pc, execVars, _transformers,
                   reg_calls, hash_seed, stories, max_age_days, disk, hist_out>>

\* a registry object from its construction on
InitRegistry ==
    /\ graph = <<>>
    /\ deps = EmptyDict
    /\ files = <<>>
    /\ runs_left = 0
    /\ InitRest

NextRegistry == RegisterCall \/ GetCall \/ ListAllCall

SpecRegistry == InitRegistry /\ [][NextRegistry]_vars

-----------------------------------------------------------------------------
(* Properties of the registry (SpecRegistry)                                *)

\* the positions of the register calls made with a class that declares name
RegisteredAs(name) == {k \in 1..Len(reg_calls) : reg_calls[k].name = name}

\* C21: get(name) returns a unit whose declared name is name, one that a
\* register call stored, or raises KeyError, and it raises only when no
\* register call was made for that name; a get that raises leaves
\* _transformers as it was
C21_GetByName ==
    /\ [](reg_out.op = "get" =>
            /\ reg_out.kind \in {"returned", "raised"}
            /\ reg_out.kind = "returned" =>
                  /\ reg_out.value.name = reg_out.name
                  /\ reg_out.value.serial \in RegisteredAs(reg_out.name)
            /\ reg_out.kind = "raised" =>
                  /\ reg_out.exc = "KeyError"
                  /\ RegisteredAs(reg_out.name) = {})
    /\ [][(reg_out'.op = "get" /\ reg_out'.kind = "raised") =>
            _transformers' = _transformers]_vars

\* with units registered under two names, get returned the unit of the name
\* asked for
C21_Witness ==
    /\ reg_out.op = "get"
    /\ reg_out.kind = "returned"
    /\ \E k \in 1..Len(reg_calls) : reg_calls[k].name # reg_out.name

\* the most recent register call made with a class that declares name
LastRegistered(name) ==
    CHOOSE k \in RegisteredAs(name) : \A j \in RegisteredAs(name) : j <= k

\* C22: of the units registered under one declared name only the later one
\* is kept: get returns the instance that the most recent register call for
\* the name created, and list_all holds each registered name exactly once
C22_LaterReplaces ==
    /\ (reg_out.op = "get" /\ reg_out.kind = "returned") =>
          /\ reg_out.value.serial = LastRegistered(reg_out.name)
          /\ reg_out.value.class = reg_calls[LastRegistered(reg_out.name)].class
    /\ reg_out.op = "list_all" =>
          /\ SeqToSet(reg_out.value) =
                {reg_calls[k].name : k \in 1..Len(reg_calls)}
          /\ \A i, j \in 1..Len(reg_out.value) :
                reg_out.value[i] = reg_out.value[j] => i = j

\* two different classes that declare "echo" were registered, and get
\* returned the instance of the second
C22_Witness ==
    /\ reg_out.op = "get"
    /\ reg_out.kind = "returned"
    /\ \E k \in RegisteredAs(reg_out.name) :
        /\ k < LastRegistered(reg_out.name)
        /\ reg_calls[k].class # reg_out.value.class

-----------------------------------------------------------------------------
(* validate_graph run twice in one process, as cli.py generate does: once   *)
(* directly and once more in the constructor of the executor                *)

MaxSeed == 1

\* the unit classes of the engine's registry, in registration order
EngineClasses ==
    << [class |-> "AddOneTransformer", name |-> "add-one", outputs |-> <<"result">>],
       [class |-> "DoubleTransformer", name |-> "double", outputs |-> <<"result">>],
       [class |-> "EchoTransformer", name |-> "echo", outputs |-> <<"echoed">>],
       [class |-> "SlackFetcher", name |-> "slack-fetcher", outputs |-> <<"slack">>],
       [class |-> "PiperSynthesizer", name |-> "piper-synthesizer",
        outputs |-> <<"audio">>] >>

\* registry.register(c) for each class of the sequence
RECURSIVE RegisterAll(_, _)
RegisterAll(t, classes) ==
    IF classes = <<>> THEN t
    ELSE RegisterAll(Register(t, Instance(Head(classes), Len(t.keys) + 1)),
                     Tail(classes))

\* what validate_graph reads of a registry: the outputs of each unit by name
RegistryView(t) == [n \in SeqToSet(t.keys) |-> t.map[n].outputs]

\* The iteration order of a set of strings is fixed by the hash seed of the
\* process, so within one process the same call takes the same one of the
\* outcomes that the iteration orders allow.
RECURSIVE OutcomeUnder(_, _)
OutcomeUnder(seed, outcomes) ==
    LET first == CHOOSE r \in outcomes : TRUE
    IN IF seed = 0 \/ outcomes = {first} THEN first
       ELSE OutcomeUnder(seed - 1, outcomes \ {first})

\* a faulty validation that consumes the inputs of the nodes it has checked
ValidateConsuming(from, to) ==
    /\ pc = from
    /\ vresult' = OutcomeUnder(hash_seed,
                               validate_graph(graph, RegistryView(_transformers)))
    /\ graph' = [i \in 1..Len(graph) |->
                    [name |-> graph[i].name, transformer |-> graph[i].transformer,
                     inputs |-> EmptyDict]]
    /\ pc' = to
    /\ UNCHANGED <<deps, sorted, execVars, libVars>>

\* validate_graph(graph, registry) in the process whose hash seed is hash_seed
ValidateInProcess(from, to) ==
    /\ pc = from
    /\ vresult' = OutcomeUnder(hash_seed,
                               validate_graph(graph, RegistryView(_transformers)))
    /\ pc' = to
    /\ UNCHANGED <<graph, deps, sorted, execVars, libVars>>

\* cli.py generate: the validation before the executor is constructed
ValidateFirst == ValidateInProcess("idle", "validated")

\* the validation at construction time, in the same process
ValidateAgain == ValidateInProcess("validated", "revalidated")

InitRevalidate ==
    /\ GraphFrom(ValShapes, 0)
    /\ deps = EmptyDict
    /\ files = <<>>
    /\ runs_left = 0
    /\ InitEngine
    /\ _transformers = RegisterAll(EmptyDict, EngineClasses)
    /\ reg_calls = EngineClasses
    /\ reg_out = NoCall
    /\ hash_seed \in 0..MaxSeed
    /\ stories = EmptyDict
    /\ max_age_days = 7
    /\ disk = NoFile
    /\ hist_out = NoCall

NextRevalidate == ValidateFirst \/ ValidateAgain

SpecRevalidate == InitRevalidate /\ [][NextRevalidate]_vars

-----------------------------------------------------------------------------
(* One graph executed twice with the same configuration mapping, its nodes  *)
(* list permuted in between                                                 *)

\* node shapes: a chain, and two independent nodes that return the same
\* file-artifact key
PermShapes ==
    {Shape("add-one", <<Item("value", ConfigRef("start"))>>),
     Shape("echo", <<Item("message", Ref("a", "result"))>>),
     Shape("double", <<Item("value", Ref("a", "result"))>>),
     Shape("piper-synthesizer", <<Item("output_dir", StrV(<<"out1">>))>>),
     Shape("piper-synthesizer", <<Item("output_dir", StrV(<<"out2">>))>>)}

\* the orderings of the nodes list g
PermutationsOf(g) ==
    {[i \in 1..Len(g) |-> g[p[i]]] :
        p \in {q \in [1..Len(g) -> 1..Len(g)] :
                 \A i, j \in 1..Len(g) : q[i] = q[j] => i = j}}

\* the caller constructs an executor with no artifact directory
ConstructPlain ==
    /\ pc = "idle"
    /\ ConstructWith({{}}, {NoDir}, {"r1"})

\* after the first run the caller reorders graph["nodes"]
Permute ==
    /\ pc \in {"done", "raised"}
    /\ Len(runs) = 1
    /\ \E g \in PermutationsOf(graph) : graph' = g
    /\ pc' = "idle"
    /\ UNCHANGED <<vresult, deps, sorted, execVars, libVars>>

InitPermute ==
    /\ GraphFrom(PermShapes, 1)
    /\ deps = EmptyDict
    /\ files = <<>>
    /\ runs_left = MaxRuns
    /\ InitRest

NextPermute == ConstructPlain \/ Permute \/ ExecuteBegin \/ Invoke \/ Return

SpecPermute == InitPermute /\ [][NextPermute]_vars

-----------------------------------------------------------------------------
(* Properties of runs on permuted nodes lists (SpecPermute)                 *)

\* the nodes of finished run r whose unit returned the file-artifact key
RunProducers(r, key) ==
    {runs[r].log[k].node : k \in {j \in 1..Len(runs[r].log) :
        /\ runs[r].log[j].op = "invoke"
        /\ runs[r].log[j].exc = ""
        /\ key \in DOMAIN runs[r].log[j].artifacts}}

\* the nodes of finished run r in the order they were invoked
RunOrder(r) == [k \in 1..Len(runs[r].log) |-> runs[r].log[k].node]

-----------------------------------------------------------------------------
(* Termination of execute                                                   *)

\* node shapes: chains, a node with two dependencies, a unit that may raise
FairShapes ==
    {Shape("add-one", <<Item("value", ConfigRef("start"))>>),
     Shape("double", <<Item("value", Ref("a", "result"))>>),
     Shape("double", <<Item("value", Ref("b", "result"))>>),
     Shape("double", <<Item("value", Ref("c", "result")),
                       Item("other", Ref("a", "result"))>>),
     Shape("slack-fetcher", <<>>)}

InitFair ==
    /\ GraphFrom(FairShapes, 1)
    /\ deps = EmptyDict
    /\ files \in {<<>>, StaleFiles("r1", NamesOf(graph), [result |-> IntV(7)])}
    /\ runs_left = 1
    /\ InitRest

NextFair == ConstructSome \/ ExecuteBegin \/ LoadCached \/ Invoke \/ Return

\* execute is one synchronous loop: once called, it takes its next step
\* (a cache load, a unit invocation that comes back, or the return)
SpecFair == InitFair /\ [][NextFair]_vars /\ WF_vars(LoadCached \/ Invoke \/ Return)

\* C25: on a graph that validate_graph accepted, the execution order is a
\* permutation of the node names and every execute call finishes: it
\* returns with an output for every node, unless a unit raised
C25_ExecuteFinishes ==
    /\ [](pc = "running" =>
            /\ vresult = Ok
            /\ IsPermutationOf(execution_order, NamesOf(graph)))
    /\ [](pc = "done" => DOMAIN node_outputs = NamesOf(graph))
    /\ [](pc = "raised" => (log # <<>> /\ log[Len(log)].op = "invoke"
                                      /\ log[Len(log)].exc # ""))
    /\ (pc = "running" ~> (pc = "done" \/ pc = "raised"))

\* execute returned after it ran every node of a graph of MaxNodes nodes,
\* one of which depends on another
C25_Witness ==
    /\ pc = "done"
    /\ Len(graph) = MaxNodes
    /\ \E A, B \in NamesOf(graph) : DependsOn(graph, A, B)
    /\ SeqToSet(InvokedNodes) = NamesOf(graph)

-----------------------------------------------------------------------------
(* history.py: ReportedStory and StoryHistory                               *)
(*                                                                         *)
(* A datetime is [day, us]: a day of December 2024 counted as an integer   *)
(* (a cutoff may fall before day 1) and the sub-second part in hundredths.  *)
(* An ISO string is a token sequence such as                               *)
(* <<"2024-12-", "03", "T10:00:00", ".", "50">>.                           *)

DefaultMaxAgeDays == 7
MaxMentions == 3

Digits == <<"0", "1", "2", "3", "4", "5", "6", "7", "8", "9">>
TwoDigits(n) == Digits[(n \div 10) + 1] \o Digits[(n % 10) + 1]
ParseTwoDigits(s) == CHOOSE n \in 0..99 : TwoDigits(n) = s

\* a faulty isoformat that always drops the sub-second part
IsoWholeSeconds(dt) == <<"2024-12-", TwoDigits(dt.day), "T10:00:00">>

\* datetime.isoformat(): the fraction is printed only when it is not zero
isoformat(dt) ==
    <<"2024-12-", TwoDigits(dt.day), "T10:00:00">>
        \o (IF dt.us = 0 THEN <<>> ELSE <<".", TwoDigits(dt.us)>>)

\* datetime.fromisoformat(text)
fromisoformat(toks) ==
    [day |-> ParseTwoDigits(toks[2]),
     us |-> IF Len(toks) = 5 THEN ParseTwoDigits(toks[5]) ELSE 0]

\* a < b of two datetimes
Earlier(a, b) == a.day < b.day \/ (a.day = b.day /\ a.us < b.us)

\* now - timedelta(days=n)
MinusDays(now, n) == [day |-> now.day - n, us |-> now.us]

\* ReportedStory(...) with __post_init__: last_mentioned_at defaults to
\* reported_at (last_mentioned_at is <<>> for None, else <<datetime>>).
\* summary and topic are strings carried like title.
ReportedStory(id, url, title, story_key, reported_at, last_mentioned_at, mention_count, developments) ==
    [id |-> id, url |-> url, title |-> title, story_key |-> story_key,
     reported_at |-> reported_at,
     last_mentioned_at |-> IF last_mentioned_at = <<>> THEN reported_at
                           ELSE last_mentioned_at[1],
     mention_count |-> mention_count, developments |-> developments]

\* ReportedStory.add_development(development, timestamp)
add_development(story, development, timestamp) ==
    [id |-> story.id, url |-> story.url, title |-> story.title,
     story_key |-> story.story_key, reported_at |-> story.reported_at,
     last_mentioned_at |-> timestamp,
     mention_count |-> story.mention_count + 1,
     developments |-> Append(story.developments, development)]

\* a faulty prune that also removes the stories mentioned exactly at the cutoff
PruneAtCutoff(st, age, now) ==
    LET cutoff == MinusDays(now, age)
        Kept(key) == Earlier(cutoff, st.map[key].last_mentioned_at)
        kept == SelectSeq(st.keys, Kept)
    IN  [stories |-> [keys |-> kept, map |-> [k \in SeqToSet(kept) |-> st.map[k]]],
         removed |-> Len(st.keys) - Len(kept)]

\* StoryHistory.prune(now): the stories left and the count returned
Prune(st, age, now) ==
    LET cutoff == MinusDays(now, age)
        Expired(key) == Earlier(st.map[key].last_mentioned_at, cutoff)
        Kept(key) == ~Expired(key)
        expired_keys == SelectSeq(st.keys, Expired)
        kept == SelectSeq(st.keys, Kept)
    IN  [stories |-> [keys |-> kept, map |-> [k \in SeqToSet(kept) |-> st.map[k]]],
         removed |-> Len(expired_keys)]

\* the JSON document that save writes (json.dump) and load reads (json.load)
SavedDocument(st, age) ==
    [kind |-> "file",
     max_age_days |-> age,
     stories |->
        [keys |-> st.keys,
         map |-> [k \in SeqToSet(st.keys) |->
            [id |-> st.map[k].id, url |-> st.map[k].url,
             title |-> st.map[k].title, story_key |-> st.map[k].story_key,
             reported_at |-> isoformat(st.map[k].reported_at),
             last_mentioned_at |-> isoformat(st.map[k].last_mentioned_at),
             mention_count |-> st.map[k].mention_count,
             developments |-> st.map[k].developments]]]]

\* StoryHistory.load(path): the history as [stories, max_age_days]
LoadedHistory(file) ==
    IF file = NoFile
    THEN [stories |-> EmptyDict, max_age_days |-> DefaultMaxAgeDays]
    ELSE [stories |->
            [keys |-> file.stories.keys,
             map |-> [k \in SeqToSet(file.stories.keys) |->
                LET story_data == file.stories.map[k] IN
                ReportedStory(story_data.id, story_data.url, story_data.title,
                              story_data.story_key,
                              fromisoformat(story_data.reported_at),
                              <<fromisoformat(story_data.last_mentioned_at)>>,
                              story_data.mention_count,
                              story_data.developments)]],
          max_age_days |-> file.max_age_days]

\* the values the stories are made of
StoryKeys == {"old-story", "recent-story"}
StoryUrl(key) == IF key = "old-story" THEN None ELSE StrV(<<"https://example.com">>)
ReportTimes == {[day |-> 1, us |-> 0], [day |-> 1, us |-> 50]}
MentionTimes == {[day |-> 3, us |-> 0]}
Developments == {"landfall", "aftermath"}
PruneTimes == {[day |-> 8, us |-> 0], [day |-> 8, us |-> 50], [day |-> 10, us |-> 50]}
MaxAges == {DefaultMaxAgeDays, 2}

histVars == <<graph, vresult, deps, sorted, pc, execVars, _transformers,
              reg_calls, reg_out, hash_seed>>

\* history.add(ReportedStory(...)), while the history is being built
AddStory ==
    /\ disk = NoFile
    /\ \E key \in StoryKeys, t \in ReportTimes :
        stories' = DictSet(stories, key,
                           ReportedStory(key, StoryUrl(key), "Story", key, t, <<>>,
                                         1, <<>>))
    /\ hist_out' = [op |-> "add"]
    /\ UNCHANGED <<max_age_days, disk, histVars>>

\* history.get(key).add_development(development, timestamp)
AddDevelopment ==
    /\ disk = NoFile
    /\ \E key \in SeqToSet(stories.keys), dev \in Developments, t \in MentionTimes :
        /\ stories.map[key].mention_count < MaxMentions
        /\ stories' = DictSet(stories, key,
                              add_development(stories.map[key], dev, t))
    /\ hist_out' = [op |-> "add_development"]
    /\ UNCHANGED <<max_age_days, disk, histVars>>

\* history.prune(now)
PruneCall ==
    /\ \E now \in PruneTimes :
        LET pruned == Prune(stories, max_age_days, now) IN
        /\ stories' = pruned.stories
        /\ hist_out' = [op |-> "prune", now |-> now, returned |-> pruned.removed,
                        before |-> stories]
    /\ UNCHANGED <<max_age_days, disk, histVars>>

\* history.save(path)
SaveCall ==
    /\ disk = NoFile
    /\ disk' = SavedDocument(stories, max_age_days)
    /\ hist_out' = [op |-> "save"]
    /\ UNCHANGED <<stories, max_age_days, histVars>>

\* history = StoryHistory.load(path), for a path that exists or not
LoadCall ==
    /\ hist_out.op # "load"
    /\ LET loaded == LoadedHistory(disk) IN
        /\ stories' = loaded.stories
        /\ max_age_days' = loaded.max_age_days
    /\ hist_out' = [op |-> "load", existed |-> disk # NoFile]
    /\ UNCHANGED <<disk, histVars>>

\* a history object from its construction on, with no history file yet
InitHistory ==
    /\ graph = <<>>
    /\ deps = EmptyDict
    /\ files = <<>>
    /\ runs_left = 0
    /\ InitEngine
    /\ _transformers = EmptyDict
    /\ reg_calls = <<>>
    /\ reg_out = NoCall
    /\ hash_seed = 0
    /\ stories = EmptyDict
    /\ max_age_days \in MaxAges
    /\ disk = NoFile
    /\ hist_out = NoCall

NextHistory == AddStory \/ AddDevelopment \/ PruneCall \/ SaveCall \/ LoadCall

SpecHistory == InitHistory /\ [][NextHistory]_vars

-----------------------------------------------------------------------------
(* Properties of the story history (SpecHistory)                            *)

\* the keys of the stories of st last mentioned before now - age days
ExpiredKeys(st, age, now) ==
    {k \in SeqToSet(st.keys) :
        Earlier(st.map[k].last_mentioned_at, MinusDays(now, age))}

\* C26: prune(now) removes exactly the stories last mentioned before
\* now - max_age_days, leaves the other stories as they were and in their
\* order, and returns the number removed; a prune that follows with the same
\* now removes nothing and returns 0
C26_PruneExact ==
    /\ [](hist_out.op = "prune" =>
            LET gone == ExpiredKeys(hist_out.before, max_age_days, hist_out.now)
                KeptKey(k) == k \notin gone
            IN  /\ stories.keys = SelectSeq(hist_out.before.keys, KeptKey)
                /\ \A k \in SeqToSet(stories.keys) :
                        stories.map[k] = hist_out.before.map[k]
                /\ hist_out.returned = Cardinality(gone))
    /\ [][(hist_out.op = "prune" /\ hist_out'.op = "prune"
                                 /\ hist_out'.now = hist_out.now) =>
            (stories' = stories /\ hist_out'.returned = 0)]_vars

\* of two stories, prune removed the one mentioned before the cutoff and
\* kept the one mentioned exactly at the cutoff
C26_Witness ==
    /\ hist_out.op = "prune"
    /\ hist_out.returned = 1
    /\ \E k \in SeqToSet(stories.keys) :
        stories.map[k].last_mentioned_at = MinusDays(hist_out.now, max_age_days)

\* C27: a load that follows a save restores the history that was saved: the
\* same max_age_days and the same stories in the same order, with equal
\* fields, timestamps, mention counts and developments; a load of a path
\* that does not exist gives the empty history with the default max_age_days
C27_SaveLoadRoundTrip ==
    /\ [][(hist_out.op = "save" /\ hist_out'.op = "load") =>
            /\ hist_out'.existed
            /\ stories' = stories
            /\ max_age_days' = max_age_days]_vars
    /\ [](hist_out.op = "load" =>
            /\ hist_out.existed = (disk # NoFile)
            /\ ~hist_out.existed =>
                  (stories = EmptyDict /\ max_age_days = DefaultMaxAgeDays))

\* a history was loaded from the file it was saved to: two stories, one with
\* no url, one with a sub-second timestamp, one with two developments, and a
\* max_age_days other than the default
C27_Witness ==
    /\ hist_out.op = "load"
    /\ hist_out.existed
    /\ max_age_days # DefaultMaxAgeDays
    /\ Len(stories.keys) = 2
    /\ \E k \in SeqToSet(stories.keys) : stories.map[k].reported_at.us # 0
    /\ \E k \in SeqToSet(stories.keys) :
          stories.map[k].developments = <<"landfall", "aftermath">>

\* some input of the graph is a malformed or a dangling reference
HasReferenceDefect(g) ==
    \E p \in InputPositions(g) :
        IsMalformed(g[p[1]].inputs[p[2]].v) \/ Dangling(g, p[1], p[2])

\* the first node of the graph bound to a unit name that is not registered
FirstUnregistered(g) ==
    CHOOSE i \in Unregistered(g) : \A j \in Unregistered(g) : i <= j

\* C28: the checks run in the stated order, units of all nodes, then
\* references of all nodes, then cycles: a graph with a node bound to an
\* unregistered unit fails with the unknown-transformer error for the first
\* such node whatever the references of the nodes before it, and a graph
\* whose units are all registered and that has a malformed or dangling
\* reference fails with a reference error even when it has a cycle
C28_ChecksInStatedOrder ==
    pc = "validated" =>
        /\ Unregistered(graph) # {} =>
              vresult = Invalid("unknown_transformer",
                                graph[FirstUnregistered(graph)].name, "",
                                graph[FirstUnregistered(graph)].transformer)
        /\ (Unregistered(graph) = {} /\ HasReferenceDefect(graph)) =>
              /\ vresult.exc = "GraphValidationError"
              /\ vresult.kind \in {"invalid_reference", "unknown_node",
                                   "unknown_output"}

-----------------------------------------------------------------------------
(* Executors for graphs with malformed references                           *)

\* node shapes: references with no "." after the node name, alone, after a
\* dangling reference, and beside well-formed nodes
MalformedShapes ==
    {Shape("add-one", <<Item("value", ConfigRef("start"))>>),
     Shape("echo", <<Item("message", StrV(<<"$", "a">>))>>),
     Shape("echo", <<Item("message", StrV(<<"$", "config">>))>>),
     Shape("echo", <<Item("message", Ref("a", "result"))>>),
     Shape("echo", <<Item("message", Ref("zz", "result")),
                     Item("other", StrV(<<"$", "a">>))>>),
     Shape("nonexistent", <<>>)}

InitMalformed ==
    /\ GraphFrom(MalformedShapes, 1)
    /\ deps = EmptyDict
    /\ files = <<>>
    /\ runs_left = 1
    /\ InitRest

NextMalformed == ConstructPlain \/ ExecuteBegin \/ Invoke \/ Return

SpecMalformed == InitMalformed /\ [][NextMalformed]_vars

\* the inputs of the graph that are malformed references
MalformedPositions(g) ==
    {p \in InputPositions(g) : IsMalformed(g[p[1]].inputs[p[2]].v)}

FirstMalformed(g) ==
    CHOOSE p \in MalformedPositions(g) :
        \A q \in MalformedPositions(g) : ~Before(q, p)

\* the invalid-reference-format error for the input at position p
MalformedError(g, p) ==
    Invalid("invalid_reference", g[p[1]].name, "", Join(g[p[1]].inputs[p[2]].v.s))

\* C29 as stated: construction of an executor for a graph with a malformed
\* reference fails with the graph-invalid error that names the node and the
\* text of a malformed reference
C29_MalformedIdentified ==
    (vresult # NotRun /\ MalformedPositions(graph) # {}) =>
        \E p \in MalformedPositions(graph) : vresult = MalformedError(graph, p)

\* C29 as amended: a graph with a malformed reference is never accepted, so
\* no executor exists and nothing is invoked; if every unit is registered the
\* failure is a graph-invalid error, which names the node and the text of the
\* first malformed reference unless a dangling reference comes before it; and
\* no unit is ever handed a malformed reference as an input
C29_MalformedRejected ==
    /\ (vresult # NotRun /\ MalformedPositions(graph) # {}) =>
          /\ vresult # Ok
          /\ pc = "construct_failed"
          /\ log = <<>>
          /\ result = NotRun
          /\ AllRegistered(graph) =>
              /\ vresult.exc = "GraphValidationError"
              /\ (\A q \in DanglingPositions(graph) :
                      ~Before(q, FirstMalformed(graph)))
                 => vresult = MalformedError(graph, FirstMalformed(graph))
    /\ \A k \in 1..Len(log) :
          log[k].op = "invoke" =>
              \A key \in DOMAIN log[k].inputs : ~IsMalformed(log[k].inputs[key])

\* construction failed with the invalid-reference error for "$config", a
\* reference with no "." at all, in a node that follows a well-formed node
C29_Witness ==
    /\ pc = "construct_failed"
    /\ vresult.kind = "invalid_reference"
    /\ vresult.ref = "$config"
    /\ vresult.node # graph[1].name

-----------------------------------------------------------------------------
(* _build_dependency_graph alone                                            *)

\* node shapes for _build_dependency_graph: literals, plain strings with and
\* without a ".", config references, references to nodes of the graph and to
\* "zz", references with two dots, with an empty node name and with no ".",
\* and nodes with several inputs
DepShapes ==
    {Shape("echo", <<>>),
     Shape("echo", <<Item("message", IntV(5))>>),
     Shape("echo", <<Item("message", StrV(<<"a", ".", "result">>))>>),
     Shape("echo", <<Item("message", ConfigRef("start"))>>),
     Shape("echo", <<Item("message", StrV(<<"$", "config", ".">>))>>),
     Shape("echo", <<Item("message", StrV(<<"$", "config">>))>>),
     Shape("echo", <<Item("message", StrV(<<"$", "a">>))>>),
     Shape("echo", <<Item("message", Ref("b", "result"))>>),
     Shape("echo", <<Item("message", StrV(<<"$", "a", ".", "x", ".", "y">>))>>),
     Shape("echo", <<Item("message", StrV(<<"$", ".", "k">>))>>),
     Shape("echo", <<Item("message", Ref("b", "result")),
                     Item("other", Ref("b", "echoed")),
                     Item("third", ConfigRef("b"))>>),
     Shape("echo", <<Item("message", Ref("a", "result")),
                     Item("count", IntV(5)),
                     Item("start", ConfigRef("start")),
                     Item("other", Ref("zz", "k"))>>)}

\* the caller runs _build_dependency_graph(graph)
BuildDependencyGraph ==
    /\ pc = "idle"
    /\ deps' = _build_dependency_graph(graph)
    /\ pc' = "built"
    /\ UNCHANGED <<graph, vresult, sorted, execVars>>
    /\ UNCHANGED libVars

InitDeps ==
    /\ GraphFrom(DepShapes, 0)
    /\ deps = EmptyDict
    /\ files = <<>>
    /\ runs_left = 0
    /\ InitRest

NextDeps == BuildDependencyGraph

SpecDeps == InitDeps /\ [][NextDeps]_vars

\* the names X for which the string toks reads "$X.k": the text between the
\* "$" and the first "."
NamesReferredTo(toks) ==
    {Join(SubSeq(toks, 2, d - 1)) :
        d \in {d \in 2..Len(toks) :
                /\ toks[1] = "$"
                /\ toks[d] = "."
                /\ \A j \in 2..(d - 1) : toks[j] # "."}}

\* the names some input of the node refers to by a string "$X.k" that does
\* not start with "$config."
ReferencedNames(node) ==
    UNION {NamesReferredTo(node.inputs[j].v.s) :
            j \in {j \in 1..Len(node.inputs) :
                    /\ node.inputs[j].v.t = "str"
                    /\ ~StartsWithConfig(node.inputs[j].v)}}

\* C30: the map _build_dependency_graph returns has exactly the node names
\* of the graph as its keys, and maps each node to exactly the names X its
\* inputs refer to by a string "$X.k" that is not a "$config." reference; a
\* node with only literals and config references maps to the empty set
C30_DependencyMap ==
    pc = "built" =>
        /\ SeqToSet(deps.keys) = NamesOf(graph)
        /\ DOMAIN deps.map = NamesOf(graph)
        /\ Len(deps.keys) = Len(graph)
        /\ \A i \in 1..Len(graph) :
            /\ deps.map[graph[i].name] = ReferencedNames(graph[i])
            /\ (\A j \in 1..Len(graph[i].inputs) :
                    \/ graph[i].inputs[j].v.t # "str"
                    \/ StartsWithConfig(graph[i].inputs[j].v)
                    \/ graph[i].inputs[j].v.s[1] # "$")
               => deps.map[graph[i].name] = {}

\* the map was built for a graph with a node that has a literal, a config
\* reference, a reference to node a and a reference to zz, which is no node,
\* and it maps that node to {a, zz}; another node has only a config reference
\* and maps to the empty set
C30_Witness ==
    /\ pc = "built"
    /\ \E i \in 1..Len(graph) :
        /\ deps.map[graph[i].name] = {"a", "zz"}
        /\ \E j \in 1..Len(graph[i].inputs) : graph[i].inputs[j].v = IntV(5)
        /\ \E j \in 1..Len(graph[i].inputs) :
            graph[i].inputs[j].v = ConfigRef("start")
    /\ \E i \in 1..Len(graph) :
        /\ graph[i].inputs = <<Item("message", ConfigRef("start"))>>
        /\ deps.map[graph[i].name] = {}

-----------------------------------------------------------------------------
(* execute called again on the same executor                                *)

\* node shapes: a chain whose outputs depend on the configuration mapping,
\* and two nodes that return the same file-artifact key or raise
ReexecuteShapes ==
    {Shape("add-one", <<Item("value", ConfigRef("start"))>>),
     Shape("double", <<Item("value", Ref("a", "result"))>>),
     Shape("piper-synthesizer", <<Item("output_dir", StrV(<<"out1">>))>>),
     Shape("piper-synthesizer", <<Item("output_dir", StrV(<<"out2">>))>>)}

\* the configuration mappings of the calls on one executor
ReexecuteConfigs == {Config, [start |-> IntV(1)]}

\* between two execute calls the caller reverses graph["nodes"], the list
\* the executor holds a reference to
Reorder ==
    /\ pc \in {"done", "raised"}
    /\ Len(graph) >= 2
    /\ graph' = [i \in 1..Len(graph) |-> graph[Len(graph) + 1 - i]]
    /\ UNCHANGED <<vresult, deps, sorted, pc, execVars, libVars>>

\* a faulty execute: the order and the maps of the last call are kept
ExecuteAgainStale ==
    /\ pc \in {"done", "raised"}
    /\ Len(runs) < MaxRuns
    /\ \E c \in ReexecuteConfigs : config' = c
    /\ idx' = 1
    /\ pc' = "running"
    /\ result' = NotRun
    /\ log' = <<>>
    /\ UNCHANGED <<graph, vresult, deps, sorted, artifact_dir, cached_nodes,
                   run_id, files, runs, runs_left, execution_order,
                   node_outputs, all_artifacts>>
    /\ UNCHANGED libVars

\* execute(config) called again on the executor of the last call, up to its
\* for loop (executor.py lines 86-91); the history log starts anew
ExecuteAgain ==
    /\ pc \in {"done", "raised"}
    /\ Len(runs) < MaxRuns
    /\ \E c \in ReexecuteConfigs : config' = c
    /\ \E order \in topological_sort(_build_dependency_graph(graph)) :
        execution_order' = order
    /\ idx' = 1
    /\ node_outputs' = <<>>
    /\ all_artifacts' = <<>>
    /\ pc' = "running"
    /\ result' = NotRun
    /\ log' = <<>>
    /\ UNCHANGED <<graph, vresult, deps, sorted, artifact_dir, cached_nodes,
                   run_id, files, runs, runs_left>>
    /\ UNCHANGED libVars

\* one executor, with no node or every node marked cached, on an artifact
\* directory that starts empty, and up to MaxRuns execute calls on it
InitReexecute ==
    /\ GraphFrom(ReexecuteShapes, 1)
    /\ deps = EmptyDict
    /\ files = <<>>
    /\ runs_left = 1
    /\ InitRest

NextReexecute ==
    ConstructSome \/ ExecuteBegin \/ ExecuteAgain \/ Reorder
        \/ LoadCached \/ Invoke \/ Return

SpecReexecute == InitReexecute /\ [][NextReexecute]_vars

\* C31: while an execute call runs, no recorded output bag is removed or
\* replaced and no key leaves the file-artifact map; the order of a call is
\* one that topological_sort gives for the graph as it is at that call; and
\* every output bag a call holds was recorded by that call itself, by
\* invoking the node's unit or by loading the persisted artifact of a node
\* marked cached
C31_FreshAndMonotone ==
    /\ [][(pc = "running" /\ pc' \in {"running", "done", "raised"}) =>
            /\ \A n \in DOMAIN node_outputs :
                n \in DOMAIN node_outputs' /\ node_outputs'[n] = node_outputs[n]
            /\ DOMAIN all_artifacts \subseteq DOMAIN all_artifacts']_vars
    /\ [](pc = "running" =>
            /\ execution_order \in topological_sort(_build_dependency_graph(graph))
            /\ idx = 1 => (node_outputs = <<>> /\ all_artifacts = <<>>)
            /\ \A n \in DOMAIN node_outputs :
                \E k \in 1..Len(log) :
                    /\ log[k].node = n
                    /\ \/ log[k].op = "invoke" /\ log[k].exc = ""
                       \/ /\ log[k].op = "load"
                          /\ n \in cached_nodes
                          /\ ArtifactPath(run_id, n) \in DOMAIN files
            /\ \A key \in DOMAIN all_artifacts :
                \E k \in 1..Len(log) :
                    /\ log[k].op = "invoke"
                    /\ key \in DOMAIN log[k].artifacts)

\* the second call on one executor with no cached node returned output bags
\* that differ from the ones the first call returned, after the nodes list
\* was reordered, and the first call had returned a file artifact
C31_Witness ==
    /\ Len(runs) = 2
    /\ pc = "done"
    /\ cached_nodes = {}
    /\ runs[1].result.kind = "returned"
    /\ runs[1].result.artifacts # <<>>
    /\ runs[1].result.data # result.data
    /\ DOMAIN runs[1].result.data = DOMAIN result.data
    /\ RunOrder(1) # RunOrder(2)

-----------------------------------------------------------------------------
(* Properties of the artifact writes of one executor (SpecReexecute)        *)

\* the positions of the log of the running call at which the artifact of
\* node n was written, and at which its unit was invoked
SavesOf(n) == {k \in 1..Len(log) : log[k].op = "save" /\ log[k].node = n}
InvokesOf(n) == {k \in 1..Len(log) : log[k].op = "invoke" /\ log[k].node = n}

\* C32 as stated: with an artifact directory, a call that has ended wrote
\* the artifact of every node whose unit it invoked exactly once, and of no
\* other node
C32_WrittenOncePerInvoked ==
    (artifact_dir # NoDir /\ pc \in {"done", "raised"}) =>
        \A n \in NamesOf(graph) :
            Cardinality(SavesOf(n)) = (IF InvokesOf(n) # {} THEN 1 ELSE 0)

\* C32 as amended: with an artifact directory, a call writes the artifact of
\* a node at most once, exactly once for each node whose unit it invoked and
\* which returned, right after the invocation, and never for a cache-hit
\* node or a node whose unit raised; a call with no cached node that returns
\* leaves exactly one artifact per node in the directory; and every write
\* puts the node's new output, as JSON stores it, at (run id, node name),
\* over whatever was there, and touches no other file
C32_WrittenOncePerReturn ==
    /\ [](artifact_dir # NoDir =>
            \A n \in NamesOf(graph) :
                /\ Cardinality(SavesOf(n)) <= 1
                /\ Cardinality(InvokesOf(n)) <= 1
                /\ \A k \in InvokesOf(n) :
                    IF log[k].exc = ""
                    THEN SavesOf(n) = {k + 1}
                    ELSE SavesOf(n) = {}
                /\ InvokesOf(n) = {} => SavesOf(n) = {})
    /\ []((artifact_dir # NoDir /\ pc = "done" /\ cached_nodes = {}) =>
            /\ DOMAIN files = {ArtifactPath(run_id, n) : n \in NamesOf(graph)}
            /\ Cardinality(DOMAIN files) = Len(graph)
            /\ \A n \in NamesOf(graph) : Cardinality(SavesOf(n)) = 1)
    /\ [][IF /\ Len(log') > Len(log)
             /\ log'[Len(log')].op = "save"
          THEN LET n == log'[Len(log')].node
                   path == ArtifactPath(run_id, n)
               IN  /\ DOMAIN files' = DOMAIN files \cup {path}
                   /\ files'[path] = JsonRoundTrip(node_outputs'[n])
                   /\ \A f \in DOMAIN files \ {path} : files'[f] = files[f]
          ELSE files' = files]_vars

\* the second call on an executor with an artifact directory and no cached
\* node returned an output for node a that differs from the first call's,
\* and the artifact of a now holds the second output
C32_Witness ==
    /\ Len(runs) = 2
    /\ pc = "done"
    /\ artifact_dir # NoDir
    /\ cached_nodes = {}
    /\ runs[1].result.kind = "returned"
    /\ "a" \in DOMAIN runs[1].result.data
    /\ runs[1].result.data["a"] # result.data["a"]
    /\ files[ArtifactPath(run_id, "a")] = result.data["a"]
    /\ Len(graph) >= 2

-----------------------------------------------------------------------------
(* Artifacts that lack an output key                                        *)

\* node shapes: a producer, and consumers of its output "result" that
\* return on an absent value (echo) or raise on it (double)
MissingKeyShapes ==
    {Shape("add-one", <<Item("value", ConfigRef("start"))>>),
     Shape("echo", <<Item("message", Ref("a", "result"))>>),
     Shape("double", <<Item("value", Ref("a", "result"))>>),
     Shape("double", <<Item("value", Ref("b", "result")),
                       Item("other", Ref("a", "result"))>>)}

\* one executor with any nodes marked cached, on a directory that holds for
\* every node an artifact of an earlier process: without the key "result",
\* or with it
InitMissingKey ==
    /\ GraphFrom(MissingKeyShapes, 1)
    /\ deps = EmptyDict
    /\ files \in {StaleFiles("r1", NamesOf(graph), [other |-> IntV(7)]),
                  StaleFiles("r1", NamesOf(graph), [result |-> IntV(7)])}
    /\ runs_left = 1
    /\ InitRest

NextMissingKey == Construct \/ ExecuteBegin \/ LoadCached \/ Invoke \/ Return

SpecMissingKey == InitMissingKey /\ [][NextMissingKey]_vars

\* the inputs of node n that reference an output key which the artifact
\* loaded for the referenced node does not contain
MissingKeyInputs(n) ==
    {j \in 1..Len(Entry(graph, n).inputs) :
        LET source == Entry(graph, n).inputs[j].v IN
        /\ IsNodeRef(source)
        /\ \E k \in 1..Len(log) : log[k].op = "load" /\ log[k].node = RefNode(source)
        /\ RefKey(source) \notin DOMAIN node_outputs[RefNode(source)]}

\* C33: at a node with an input that references a key the loaded artifact of
\* a cache-hit node lacks, the unit is invoked with None for that input; if
\* the unit returns, its output is recorded and the loop goes on, and the run
\* ends there only with an exception that the unit raises on these inputs
C33_MissingKeyIsAbsent ==
    [][\A n \in NamesOf(graph) :
        (AtNode(n) /\ ~Hit(n) /\ MissingKeyInputs(n) # {}) =>
            /\ Len(log') > Len(log)
            /\ LET e == log'[Len(log) + 1] IN
               /\ e.op = "invoke" /\ e.node = n
               /\ \A j \in MissingKeyInputs(n) :
                    e.inputs[Entry(graph, n).inputs[j].k] = None
               /\ e.exc = "" =>
                    /\ pc' = "running"
                    /\ idx' = idx + 1
                    /\ n \in DOMAIN node_outputs'
               /\ e.exc # "" =>
                    /\ pc' = "raised"
                    /\ result' = [kind |-> "raised", exc |-> e.exc, node |-> n]
                    /\ \E out \in Process(Entry(graph, n).transformer, e.inputs) :
                        out.raised /\ out.exc = e.exc]_vars

\* node a was loaded from an artifact without the key "result", the echo
\* unit of a node that references $a.result was invoked with None and
\* returned it, and the run returned
C33_Witness ==
    /\ pc = "done"
    /\ \E i \in 1..Len(log), k \in 1..Len(log) :
        /\ log[i].op = "load" /\ log[i].node = "a"
        /\ "result" \notin DOMAIN node_outputs["a"]
        /\ log[k].op = "invoke"
        /\ Entry(graph, log[k].node).transformer = "echo"
        /\ log[k].inputs["message"] = None
        /\ node_outputs[log[k].node] = [echoed |-> None]

-----------------------------------------------------------------------------
(* Literal inputs                                                           *)

\* node shapes: inputs that are numbers, null, objects of the graph file
\* that are no strings, and strings without a leading "$" (plain, empty, with
\* a ".", with a "$" inside), in nodes that are otherwise well wired, in a
\* node with a dangling reference and in a node with an unknown unit
LiteralShapes ==
    {Shape("echo", <<Item("message", IntV(5))>>),
     Shape("echo", <<Item("message", None)>>),
     Shape("echo", <<Item("message", ObjV("datetime.date(2024, 12, 28)"))>>),
     Shape("echo", <<Item("message", StrV(<<"hello">>))>>),
     Shape("echo", <<Item("message", StrV(<<>>))>>),
     Shape("echo", <<Item("message", StrV(<<"a", ".", "echoed">>))>>),
     Shape("echo", <<Item("message", Ref("a", "echoed")),
                     Item("other", StrV(<<"x", "$", "a", ".", "echoed">>))>>),
     Shape("add-one", <<Item("value", IntV(5)),
                        Item("other", StrV(<<"config", ".", "start">>))>>),
     Shape("echo", <<Item("other", IntV(5)),
                     Item("message", Ref("zz", "echoed"))>>),
     Shape("nonexistent", <<Item("value", IntV(5))>>)}

InitLiteral ==
    /\ GraphFrom(LiteralShapes, 1)
    /\ deps = EmptyDict
    /\ files = <<>>
    /\ runs_left = 1
    /\ InitRest

NextLiteral == ConstructPlain \/ ExecuteBegin \/ Invoke \/ Return

SpecLiteral == InitLiteral /\ [][NextLiteral]_vars

\* the source is no string, or a string that does not start with "$"
IsLiteral(source) ==
    \/ source.t # "str"
    \/ source.s = <<>>
    \/ source.s[1] # "$"

\* the graph g with the literal inputs of its nodes left out
WithoutLiterals(g) ==
    [i \in 1..Len(g) |->
        [name |-> g[i].name,
         transformer |-> g[i].transformer,
         inputs |-> SelectSeq(g[i].inputs, LAMBDA item : ~IsLiteral(item.v))]]

\* C34: the outcome of validate_graph is the outcome for the graph without
\* its literal inputs, and a graph with registered units and only literal
\* inputs is accepted; the dependency graph is the one of the graph without
\* its literal inputs; and each invocation hands the unit every literal
\* input of its node as the very value of the graph
C34_LiteralPassedThrough ==
    /\ vresult # NotRun =>
        /\ vresult \in validate_graph(WithoutLiterals(graph), Registry)
        /\ (/\ AllRegistered(graph)
            /\ \A p \in InputPositions(graph) : IsLiteral(graph[p[1]].inputs[p[2]].v))
           => vresult = Ok
        /\ vresult # Ok =>
            \A p \in InputPositions(graph) :
                (/\ IsLiteral(graph[p[1]].inputs[p[2]].v)
                 /\ graph[p[1]].name = vresult.node)
                => graph[p[1]].inputs[p[2]].k # vresult.key
    /\ _build_dependency_graph(graph) = _build_dependency_graph(WithoutLiterals(graph))
    /\ \A k \in 1..Len(log) : log[k].op = "invoke" =>
        \A j \in 1..Len(Entry(graph, log[k].node).inputs) :
            LET item == Entry(graph, log[k].node).inputs[j] IN
            IsLiteral(item.v) => log[k].inputs[item.k] = item.v

\* the run returned after units were invoked with a string literal that
\* contains a ".", with one that contains a "$", and with a null
C34_Witness ==
    /\ pc = "done"
    /\ \E k \in 1..Len(log) :
        log[k].op = "invoke"
        /\ "message" \in DOMAIN log[k].inputs
        /\ log[k].inputs["message"] = StrV(<<"a", ".", "echoed">>)
    /\ \E k \in 1..Len(log) :
        log[k].op = "invoke"
        /\ "other" \in DOMAIN log[k].inputs
        /\ log[k].inputs["other"] = StrV(<<"x", "$", "a", ".", "echoed">>)
    /\ \E k \in 1..Len(log) :
        log[k].op = "invoke"
        /\ "message" \in DOMAIN log[k].inputs
        /\ log[k].inputs["message"] = None

-----------------------------------------------------------------------------
(* Resuming after a failure (SpecRerun)                                     *)

\* the nodes whose unit finished run r invoked and which returned
InvokedOk(r) ==
    {runs[r].log[k].node : k \in {j \in 1..Len(runs[r].log) :
        runs[r].log[j].op = "invoke" /\ runs[r].log[j].exc = ""}}

\* the nodes with an artifact in the directory when run r started: the
\* directory was empty before the first run
SavedBefore(r) ==
    {runs[q[1]].log[q[2]].node :
        q \in {e \in RunEntries : e[1] < r /\ EntryOp(e) = "save"}}

\* C35: with an artifact directory, the output of an invoked node is in its
\* file at (run id, node name) as soon as the loop moves on, so when a unit
\* raises every node invoked before it has its artifact; and the next run
\* on that directory under the same run id with those nodes marked cached
\* invokes none of them: it loads every node up to the first one that is
\* not marked cached or has no artifact, and invokes that one first
C35_ResumeAfterFailure ==
    /\ artifact_dir # NoDir =>
        \A k \in 1..Len(log) : (log[k].op = "invoke" /\ log[k].exc = "") =>
            /\ k < Len(log)
            /\ log[k + 1].op = "save" /\ log[k + 1].node = log[k].node
            /\ ArtifactPath(run_id, log[k].node) \in DOMAIN files
            /\ files[ArtifactPath(run_id, log[k].node)] =
                    JsonRoundTrip(node_outputs[log[k].node])
    /\ \A r \in 2..Len(runs) :
        (/\ runs[r - 1].result.kind = "raised"
         /\ runs[r - 1].dir # NoDir
         /\ runs[r].dir = runs[r - 1].dir
         /\ runs[r].run_id = runs[r - 1].run_id
         /\ InvokedOk(r - 1) \subseteq runs[r].cached) =>
            /\ \A k \in 1..Len(runs[r].log) :
                runs[r].log[k].op = "invoke" =>
                    runs[r].log[k].node \notin InvokedOk(r - 1)
            /\ \A k \in 1..Len(runs[r].log) :
                (/\ runs[r].log[k].op = "invoke"
                 /\ \A j \in 1..(k - 1) : runs[r].log[j].op # "invoke") =>
                    /\ \A j \in 1..(k - 1) : runs[r].log[j].op = "load"
                    /\ \/ runs[r].log[k].node \notin runs[r].cached
                       \/ runs[r].log[k].node \notin SavedBefore(r)
                    /\ SavedBefore(r) \subseteq runs[r].cached =>
                            runs[r].log[k].node \notin SavedBefore(r)

\* the first run invoked two units and ended with the exception of the
\* third node's unit; the second run, with exactly the two nodes marked
\* cached, loaded both, invoked the third node first, and returned
C35_Witness ==
    /\ Len(runs) = 2
    /\ Len(graph) = 3
    /\ runs[1].result.kind = "raised"
    /\ runs[1].dir # NoDir
    /\ Cardinality(InvokedOk(1)) = 2
    /\ runs[2].cached = InvokedOk(1)
    /\ runs[2].result.kind = "returned"
    /\ Len(runs[2].log) >= 3
    /\ runs[2].log[1].op = "load"
    /\ runs[2].log[2].op = "load"
    /\ runs[2].log[3].op = "invoke"
    /\ runs[2].log[3].node = runs[1].result.node

-----------------------------------------------------------------------------
(* File artifacts of cache-hit nodes (SpecReexecute)                        *)

\* C36: a step that loads a node from its artifact leaves the file-artifact
\* map as it is, and a call in which every node was loaded returns an empty
\* file-artifact map, whatever the call that wrote the artifacts returned
C36_NoArtifactsFromCache ==
    /\ [][\A n \in NamesOf(graph) :
            (AtNode(n) /\ Hit(n)) => all_artifacts' = all_artifacts]_vars
    /\ []((pc = "done" /\ \A k \in 1..Len(log) : log[k].op = "load") =>
            result.artifacts = <<>>)
    /\ [](pc = "done" =>
            \A key \in DOMAIN result.artifacts :
                \E k \in 1..Len(log) :
                    /\ log[k].op = "invoke"
                    /\ key \in DOMAIN log[k].artifacts
                    /\ \A j \in 1..Len(log) : log[j].op = "load" =>
                            log[j].node # log[k].node)

\* the first call invoked the synthesizer nodes and returned a file artifact;
\* the second call on the same executor loaded every node from its artifact,
\* returned the same output bags and an empty file-artifact map
C36_Witness ==
    /\ Len(runs) = 2
    /\ pc = "done"
    /\ runs[1].result.kind = "returned"
    /\ "audio" \in DOMAIN runs[1].result.artifacts
    /\ Len(log) = Len(graph)
    /\ \A k \in 1..Len(log) : log[k].op = "load"
    /\ result.data = runs[1].result.data
    /\ result.artifacts = <<>>

-----------------------------------------------------------------------------
(* topological_sort on maps with cycles and missing dependencies (SpecSort) *)

\* key n lies on a cycle, has a dependency that is no key, or depends
\* directly or transitively on a key that does
Blocked(d, n) ==
    LET reached == Reach(d, n) IN
    \/ ~(reached \subseteq SeqToSet(d.keys))
    \/ n \in reached
    \/ \E m \in reached : m \in Reach(d, m)

\* C37: for every dependency map, with or without cycles and dependencies
\* that are no keys, topological_sort returns a list; the list holds exactly
\* the keys that neither lie on nor depend on a cycle or a missing
\* dependency, each once, and every dependency of a listed key before it
C37_PartialOrderReturned ==
    pc = "sorted" =>
        /\ sorted \in Seq(SeqToSet(deps.keys))
        /\ \A i, j \in 1..Len(sorted) : sorted[i] = sorted[j] => i = j
        /\ SeqToSet(sorted) = {n \in SeqToSet(deps.keys) : ~Blocked(deps, n)}
        /\ \A A \in SeqToSet(sorted) : \A B \in deps.map[A] :
            /\ B \in SeqToSet(sorted)
            /\ Pos(sorted, B) < Pos(sorted, A)

\* a and b depend on each other and c on nothing: the list returned is c
\* alone
C37_Witness ==
    /\ pc = "sorted"
    /\ deps.keys = <<"a", "b", "c">>
    /\ deps.map["a"] = {"b"} /\ deps.map["b"] = {"a"} /\ deps.map["c"] = {}
    /\ sorted = <<"c">>

\* b depends on zz, which is no key, c depends on b and a on nothing: the
\* list returned is a alone
C37_WitnessMissing ==
    /\ pc = "sorted"
    /\ deps.keys = <<"a", "b", "c">>
    /\ deps.map["a"] = {} /\ deps.map["b"] = {"zz"} /\ deps.map["c"] = {"b"}
    /\ sorted = <<"a">>

-----------------------------------------------------------------------------
(* Graphs in which node entries share a name                                *)

\* the names of the entries: with three entries, two of them share a name
DuplicateNames == {"a", "b"}

\* node shapes: units that give different outputs for the same input, with
\* different input keys, consumers of a and of b, and an unknown unit
DuplicateShapes ==
    {Shape("add-one", <<Item("value", ConfigRef("start"))>>),
     Shape("double", <<Item("value", ConfigRef("start"))>>),
     Shape("echo", <<Item("message", ConfigRef("start"))>>),
     Shape("double", <<Item("value", Ref("a", "result"))>>),
     Shape("echo", <<Item("message", Ref("b", "result"))>>),
     Shape("nonexistent", <<>>)}

InitDuplicate ==
    /\ \E n \in 1..MaxNodes :
        \E names \in [1..n -> DuplicateNames], f \in [1..n -> DuplicateShapes] :
            graph = GraphNamed(names, f)
    /\ deps = EmptyDict
    /\ files = <<>>
    /\ runs_left = 1
    /\ InitRest

NextDuplicate == ConstructPlain \/ ExecuteBegin \/ Invoke \/ Return

SpecDuplicate == InitDuplicate /\ [][NextDuplicate]_vars

\* two entries of the graph share a name
HasDuplicate(g) == \E i, j \in 1..Len(g) : i # j /\ g[i].name = g[j].name

\* C38: a graph whose entries share names is accepted when, with each name
\* standing for its last entry, every unit is registered, every reference is
\* well formed and names a declared output, and there is no cycle; the
\* dependency graph has one key per name with the references of the last
\* entry of that name; and execute invokes each name at most once, every
\* name once when it returns, with the input keys and the unit of the last
\* entry of the name
C38_LastEntryOfAName ==
    /\ (vresult # NotRun /\ WellWired(graph) /\ ~HasCycle(graph)) => vresult = Ok
    /\ LET d == _build_dependency_graph(graph) IN
        /\ Len(d.keys) = Cardinality(NamesOf(graph))
        /\ SeqToSet(d.keys) = NamesOf(graph)
        /\ \A n \in NamesOf(graph) : d.map[n] = ReferencedNames(Entry(graph, n))
    /\ \A n \in NamesOf(graph) : Cardinality(InvokesOf(n)) <= 1
    /\ pc = "done" =>
        /\ Len(log) = Cardinality(NamesOf(graph))
        /\ \A n \in NamesOf(graph) : Cardinality(InvokesOf(n)) = 1
    /\ \A k \in 1..Len(log) : log[k].op = "invoke" =>
        LET last == Entry(graph, log[k].node) IN
        /\ DOMAIN log[k].inputs = {last.inputs[j].k : j \in 1..Len(last.inputs)}
        /\ \A j \in 1..Len(last.inputs) :
            IsConfigRef(last.inputs[j].v) =>
                log[k].inputs[last.inputs[j].k] = config[ConfigKey(last.inputs[j].v)]
        /\ IF log[k].exc = ""
           THEN \E out \in Process(last.transformer, log[k].inputs) :
                    ~out.raised /\ out.data = node_outputs[log[k].node]
           ELSE \E out \in Process(last.transformer, log[k].inputs) :
                    out.raised /\ out.exc = log[k].exc

\* three entries, the first two named a with different units and input
\* keys: the run returned after two invocations, and the output of a is the
\* one of the second entry's unit
C38_Witness ==
    /\ pc = "done"
    /\ Len(graph) = 3
    /\ graph[1].name = "a" /\ graph[2].name = "a" /\ graph[3].name = "b"
    /\ graph[1].transformer = "echo"
    /\ graph[2].transformer = "add-one"
    /\ graph[3].inputs = <<Item("value", Ref("a", "result"))>>
    /\ Len(log) = 2
    /\ node_outputs["a"] = [result |-> IntV(6)]
    /\ node_outputs["b"] = [result |-> IntV(12)]

-----------------------------------------------------------------------------
(* story_deduplicator.py and history_updater.py on one history path         *)

\* the times of the pipeline run: datetime.now() in the two units
RunTimes == {[day |-> 10, us |-> 0], [day |-> 12, us |-> 50]}

\* the days on which the stories of the history file were reported; 0 for a
\* story that is not in the file
FileDays == {0, 1, 9}

\* the history that holds the stories k with day[k] # 0, reported on day[k]
HistoryOf(day) ==
    LET InFile(k) == day[k] # 0
        keys == SelectSeq(<<"old-story", "recent-story">>, InFile)
    IN  [keys |-> keys,
         map |-> [k \in SeqToSet(keys) |->
                    ReportedStory(k, StoryUrl(k), "Story", k,
                                  [day |-> day[k], us |-> 0], <<>>, 1, <<>>)]]

\* the entries of items_to_report: the decisions parsed from the language
\* model's answer, which the code does not constrain
ReportItems ==
    [story_key : StoryKeys \cup {"new-story"}, action : {"new", "development"}]

ItemsToReport == {<<>>} \cup {<<i>> : i \in ReportItems}
                    \cup {<<i, j>> : i, j \in ReportItems}

RECURSIVE ApplyItems(_, _, _)
\* the loop of HistoryUpdater.process over items_to_report (lines 29-52);
\* the id of a new story is a fresh uuid, written "uuid"
ApplyItems(st, items, now) ==
    IF items = <<>> THEN st
    ELSE LET item_data == Head(items)
             story_key == item_data.story_key
         IN  IF item_data.action = "new"
             THEN ApplyItems(DictSet(st, story_key,
                                     ReportedStory("uuid", None, "Story", story_key,
                                                   now, <<>>, 1, <<>>)),
                             Tail(items), now)
             ELSE IF story_key \in SeqToSet(st.keys)
             THEN ApplyItems(DictSet(st, story_key,
                                     add_development(st.map[story_key],
                                                     "note", now)),
                             Tail(items), now)
             ELSE ApplyItems(st, Tail(items), now)

\* StoryDeduplicator.process: the history is loaded and pruned in memory, the
\* file is left as it is; the unit returns items_to_report, or raises when
\* the language model's answer cannot be parsed
DeduplicatorProcess ==
    /\ pc = "idle"
    /\ \E now \in RunTimes :
        LET history == LoadedHistory(disk)
            pruned == Prune(history.stories, history.max_age_days, now)
        IN  /\ stories' = pruned.stories
            /\ max_age_days' = history.max_age_days
            /\ \/ \E items \in ItemsToReport :
                    /\ hist_out' = [op |-> "deduplicate", now |-> now,
                                    items_to_report |-> items]
                    /\ pc' = "deduplicated"
               \/ /\ hist_out' = [op |-> "deduplicate", now |-> now,
                                  items_to_report |-> <<>>]
                  /\ pc' = "raised"
    /\ UNCHANGED <<disk, graph, vresult, deps, sorted, execVars, _transformers,
                   reg_calls, reg_out, hash_seed>>

\* HistoryUpdater.process: the history is loaded from the file again, the
\* items are applied and the history is saved
HistoryUpdaterProcess ==
    /\ pc = "deduplicated"
    /\ \E now \in RunTimes :
        /\ ~Earlier(now, hist_out.now)
        /\ LET history == LoadedHistory(disk)
               updated == ApplyItems(history.stories, hist_out.items_to_report, now)
           IN  /\ stories' = updated
               /\ max_age_days' = history.max_age_days
               /\ disk' = SavedDocument(updated, history.max_age_days)
        /\ hist_out' = [op |-> "update", now |-> now,
                        items_to_report |-> hist_out.items_to_report]
    /\ pc' = "updated"
    /\ UNCHANGED <<graph, vresult, deps, sorted, execVars, _transformers,
                   reg_calls, reg_out, hash_seed>>

\* before a pipeline run: no history file, or the file an earlier run saved
InitPipeline ==
    /\ graph = <<>>
    /\ deps = EmptyDict
    /\ files = <<>>
    /\ runs_left = 0
    /\ InitEngine
    /\ _transformers = EmptyDict
    /\ reg_calls = <<>>
    /\ reg_out = NoCall
    /\ hash_seed = 0
    /\ stories = EmptyDict
    /\ max_age_days = DefaultMaxAgeDays
    /\ hist_out = NoCall
    /\ \/ disk = NoFile
       \/ \E age \in MaxAges, day \in [StoryKeys -> FileDays] :
            disk = SavedDocument(HistoryOf(day), age)

NextPipeline == DeduplicatorProcess \/ HistoryUpdaterProcess

SpecPipeline == InitPipeline /\ [][NextPipeline]_vars

\* C39: after StoryDeduplicator and then HistoryUpdater have processed the
\* history path, the file holds no story last mentioned more than
\* max_age_days before the time of the run
C39_RollingHistory ==
    pc = "updated" =>
        \A k \in SeqToSet(disk.stories.keys) :
            ~Earlier(fromisoformat(disk.stories.map[k].last_mentioned_at),
                     MinusDays(hist_out.now, disk.max_age_days))

====
